---------------------------- MODULE Spec2Model ----------------------------
(***************************************************************************)
(* A model of the bronze/silver/gold data-cleansing pipeline:              *)
(*   - the PII masking functions (utils/pii_masking.py),                   *)
(*   - the validators and the quality engine (utils/validators.py,         *)
(*     utils/data_quality.py),                                             *)
(*   - the SCD Type 2 flow and its read queries (utils/scd_builder.py),    *)
(*   - the customers_gold refresh (transformations/gold/customers_gold.py).*)
(*                                                                         *)
(* SQL strings are sequences of one-character strings; the SQL NULL of a   *)
(* string column is the one-element sequence NULL, which is no string.     *)
(* SQL booleans are three-valued: SqlTrue, SqlFalse, SqlNull.              *)
(***************************************************************************)
EXTENDS Integers, Sequences, FiniteSets, TLC

VARIABLES
    pii_call,          \* the last call of a masking function: its arguments and result
    dq_row,            \* the last row run through the quality engine
    scd_config,        \* the SCDType2Config the flow was created with
    scd_table,         \* the versioned target table of the SCD Type 2 flow
    scd_change,        \* the change record the flow applied last
    scd_deletes,       \* per key, the sequence values at which a delete closed a version
    scd_seq,           \* per key, the sequence value of the last change applied
    scd_count,         \* the number of changes applied
    access_grants,     \* the table pii_access_grants
    now,               \* current_timestamp()
    current_user,      \* current_user(): the pipeline owner
    customers_silver,  \* the table customers_silver
    gold,              \* the materialized view customers_gold, as last refreshed
    gold_prev,         \* the user_access of the refresh before the last one
    silver,            \* the last call of the silver builder: its arguments and result
    column_name,       \* a column name and the results of normalizing it again and again
    util_call          \* the last call of a utility function: its argument and result

vars == <<pii_call, dq_row, scd_config, scd_table, scd_change, scd_deletes, scd_seq, scd_count,
          access_grants, now, current_user, customers_silver, gold, gold_prev, silver,
          column_name, util_call>>

-----------------------------------------------------------------------------
(* SQL values *)

NULL == <<"<null>">>

\* the SQL NULL of a timestamp or numeric column, and Python's None
NullTs == -1
None   == <<"<None>">>

SqlTrue  == "true"
SqlFalse == "false"
SqlNull  == "null"

Bool3(b) == IF b THEN SqlTrue ELSE SqlFalse

\* Column.__invert__ (~): NOT of a three-valued boolean
SqlNot(b) == IF b = SqlNull THEN SqlNull ELSE IF b = SqlTrue THEN SqlFalse ELSE SqlTrue

\* Column.__and__ (&): Kleene AND
SqlAnd(a, b) ==
    IF a = SqlFalse \/ b = SqlFalse THEN SqlFalse
    ELSE IF a = SqlNull \/ b = SqlNull THEN SqlNull
    ELSE SqlTrue

\* Column.__eq__ (==) on strings: NULL when either side is NULL, case-sensitive otherwise
SqlEq(a, b) == IF a = NULL \/ b = NULL THEN SqlNull ELSE Bool3(a = b)

Max(a, b) == IF a >= b THEN a ELSE b
Min(a, b) == IF a <= b THEN a ELSE b

-----------------------------------------------------------------------------
(* Spark SQL string functions, as the source uses them *)

Digit == {"0", "1", "2", "3", "4", "5", "6", "7", "8", "9"}
UpperLetter == {"A", "B", "C", "D", "E", "F", "G", "H", "I", "J", "K", "L", "M",
                "N", "O", "P", "Q", "R", "S", "T", "U", "V", "W", "X", "Y", "Z"}
LowerLetter == {"a", "b", "c", "d", "e", "f", "g", "h", "i", "j", "k", "l", "m",
                "n", "o", "p", "q", "r", "s", "t", "u", "v", "w", "x", "y", "z"}
Letter == UpperLetter \cup LowerLetter
\* \w of a Java regular expression
WordChar == Letter \cup Digit \cup {"_"}
\* \s of a Java regular expression
WhiteSpace == {" ", "\t", "\n", "\r"}

\* F.substring(col, pos, len): 1-based, a negative pos counts from the end
Substring(s, pos, len) ==
    IF s = NULL THEN NULL
    ELSE LET n     == Len(s)
             start == IF pos > 0 THEN pos - 1 ELSE IF pos < 0 THEN n + pos ELSE 0
             until == start + len
         IN  IF until <= start \/ start >= n THEN <<>>
             ELSE SubSeq(s, Max(start, 0) + 1, Min(until, n))

\* F.concat(...): NULL when any argument is NULL
Concat3(a, b, c) == IF a = NULL \/ b = NULL \/ c = NULL THEN NULL ELSE a \o b \o c
Concat2(a, b) == IF a = NULL \/ b = NULL THEN NULL ELSE a \o b

\* the positions of character c in s
Positions(s, c) == {i \in 1..Len(s) : s[i] = c}

\* F.split(col, c).getItem(k), k zero-based, for a one-character pattern c:
\* the k-th piece between occurrences of c; NULL when there is no such piece
SplitItem(s, c, k) ==
    IF s = NULL THEN NULL
    ELSE LET ps     == Positions(s, c)
             \* the cut before piece j (0-based): the j-th occurrence of c, 0 for j = 0
             Cut(j) == IF j = 0 THEN 0
                       ELSE CHOOSE p \in ps : Cardinality({q \in ps : q <= p}) = j
         IN  IF k > Cardinality(ps) THEN NULL
             ELSE LET from == Cut(k) + 1
                      to   == IF k = Cardinality(ps) THEN Len(s) ELSE Cut(k + 1) - 1
                  IN  SubSeq(s, from, to)

\* F.regexp_extract(col, r'\b(\d{6})\b', 1): the first run of exactly six digits
\* that has a word boundary on both sides; '' when there is none
RegexpExtractPostal(s) ==
    IF s = NULL THEN NULL
    ELSE LET n      == Len(s)
             Hit(i) == /\ i + 5 <= n
                       /\ \A j \in i..(i + 5) : s[j] \in Digit
                       /\ (i = 1 \/ s[i - 1] \notin WordChar)
                       /\ (i + 5 = n \/ s[i + 6] \notin WordChar)
             hits   == {i \in 1..n : Hit(i)}
         IN  IF hits = {} THEN <<>>
             ELSE LET i == CHOOSE h \in hits : \A g \in hits : h <= g
                  IN  SubSeq(s, i, i + 5)

-----------------------------------------------------------------------------
(* utils/pii_masking.py *)

full_access    == <<"f", "u", "l", "l", "_", "a", "c", "c", "e", "s", "s">>
partial_access == <<"p", "a", "r", "t", "i", "a", "l", "_", "a", "c", "c", "e", "s", "s">>
masked_only    == <<"m", "a", "s", "k", "e", "d", "_", "o", "n", "l", "y">>

Stars3      == <<"*", "*", "*">>
EmailMasked == <<"*", "*", "*", "@", "*", "*", "*">>

\* a tier selection that knows two disclosures only: partial and masked
MaskByLevelTwoTiers(col, access_level, partial_mask, masked) ==
    IF SqlEq(access_level, full_access) = SqlTrue
       \/ SqlEq(access_level, partial_access) = SqlTrue
    THEN partial_mask
    ELSE masked

\* F.when(access_level == "full_access", col)
\*  .when(access_level == "partial_access", partial_mask).otherwise(masked)
MaskByLevel(col, access_level, partial_mask, masked) ==
    IF SqlEq(access_level, full_access) = SqlTrue THEN col
    ELSE IF SqlEq(access_level, partial_access) = SqlTrue THEN partial_mask
    ELSE masked

\* a mask_email that takes the tier value 'partial' for the partial tier
mask_email_by_short_name(col, access_level) ==
    LET username     == SplitItem(col, "@", 0)
        domain       == SplitItem(col, "@", 1)
        partial_mask == Concat3(Substring(username, 1, 1), <<"*", "*", "*", "@">>, domain)
    IN  MaskByLevel(col, IF access_level = <<"p", "a", "r", "t", "i", "a", "l">>
                         THEN partial_access ELSE access_level,
                    partial_mask, EmailMasked)

mask_email(col, access_level) ==
    LET username     == SplitItem(col, "@", 0)
        domain       == SplitItem(col, "@", 1)
        partial_mask == Concat3(Substring(username, 1, 1), <<"*", "*", "*", "@">>, domain)
    IN  MaskByLevel(col, access_level, partial_mask, EmailMasked)

\* a fail-open mask_phone: an unrecognised access level discloses the value
mask_phone_failopen(col, access_level) ==
    IF SqlEq(access_level, partial_access) = SqlTrue
    THEN Concat3(Substring(col, 1, 4), <<" ", "*", "*", "*", "*">>, Substring(col, -4, 4))
    ELSE IF SqlEq(access_level, masked_only) = SqlTrue THEN Stars3
    ELSE col

mask_phone(col, access_level) ==
    LET partial_mask == Concat3(Substring(col, 1, 4), <<" ", "*", "*", "*", "*">>,
                                Substring(col, -4, 4))
    IN  MaskByLevel(col, access_level, partial_mask, Stars3)

mask_nric(col, access_level) ==
    LET partial_mask == Concat3(Substring(col, 1, 1), <<"*", "*", "*", "*">>,
                                Substring(col, -3, 3))
    IN  MaskByLevel(col, access_level, partial_mask, Stars3)

mask_address(col, access_level) ==
    LET postal_code  == RegexpExtractPostal(col)
        partial_mask == Concat2(<<"*", "*", "*", " ", "S", "i", "n", "g", "a", "p", "o",
                                  "r", "e", " ">>, postal_code)
    IN  MaskByLevel(col, access_level, partial_mask, Stars3)

mask_ssn(col, access_level) ==
    LET partial_mask == Concat2(<<"*", "*", "*", "-", "*", "*", "-">>, Substring(col, -4, 4))
    IN  MaskByLevel(col, access_level, partial_mask, Stars3)


-----------------------------------------------------------------------------
(* The masking functions, called on bounded inputs *)

MaxFieldLen == 3

MaskAlphabet == {"a", "@", "7", " "}

FieldSamples ==
    { <<"a", "l", "i", "c", "e", "@", "e", "x", "a", "m", "p", "l", "e", ".", "c", "o", "m">>,
      <<"+", "6", "5", "9", "1", "2", "3", "4", "5", "6", "7">>,
      <<"S", "1", "2", "3", "4", "5", "6", "7", "D">>,
      <<"5", " ", "A", "n", "g", " ", "R", "d", " ", "1", "2", "3", "4", "5", "6">>,
      <<"1", "2", "3", "-", "4", "5", "-", "6", "7", "8", "9">> }

\* every string over MaskAlphabet of at most MaxFieldLen characters, the samples, and NULL
FieldValues ==
    UNION {[1..k -> MaskAlphabet] : k \in 0..MaxFieldLen} \cup FieldSamples \cup {NULL}

\* the three tiers, NULL, the empty string, other spellings and unknown strings
AccessLevels ==
    { full_access, partial_access, masked_only, NULL, <<>>,
      <<"F", "U", "L", "L", "_", "A", "C", "C", "E", "S", "S">>,
      <<"P", "a", "r", "t", "i", "a", "l", "_", "A", "c", "c", "e", "s", "s">>,
      <<"f", "u", "l", "l">>,
      <<"p", "a", "r", "t", "i", "a", "l">>,
      <<"f", "u", "l", "l", "_", "a", "c", "c", "e", "s", "s", " ">>,
      <<"u", "n", "k", "n", "o", "w", "n", "_", "t", "i", "e", "r">> }

Call(fn, col, access_level, result) ==
    [fn |-> fn, col |-> col, access_level |-> access_level, result |-> result]

\* no masking function called yet, on the arguments the calls will get
NoCall(col, access_level) == Call("none", col, access_level, NULL)

MaskInit == pii_call \in {NoCall(col, lvl) : col \in FieldValues, lvl \in AccessLevels}

MaskEmail ==
    pii_call' = Call("mask_email", pii_call.col, pii_call.access_level,
                     mask_email(pii_call.col, pii_call.access_level))

MaskPhone ==
    pii_call' = Call("mask_phone", pii_call.col, pii_call.access_level,
                     mask_phone(pii_call.col, pii_call.access_level))

MaskNric ==
    pii_call' = Call("mask_nric", pii_call.col, pii_call.access_level,
                     mask_nric(pii_call.col, pii_call.access_level))

MaskAddress ==
    pii_call' = Call("mask_address", pii_call.col, pii_call.access_level,
                     mask_address(pii_call.col, pii_call.access_level))

MaskSsn ==
    pii_call' = Call("mask_ssn", pii_call.col, pii_call.access_level,
                     mask_ssn(pii_call.col, pii_call.access_level))

-----------------------------------------------------------------------------
(* More Spark SQL string functions *)

LowerSeq == <<"a", "b", "c", "d", "e", "f", "g", "h", "i", "j", "k", "l", "m",
              "n", "o", "p", "q", "r", "s", "t", "u", "v", "w", "x", "y", "z">>
UpperSeq == <<"A", "B", "C", "D", "E", "F", "G", "H", "I", "J", "K", "L", "M",
              "N", "O", "P", "Q", "R", "S", "T", "U", "V", "W", "X", "Y", "Z">>

UpperChar(c) ==
    IF c \in LowerLetter THEN UpperSeq[CHOOSE i \in 1..Len(LowerSeq) : LowerSeq[i] = c] ELSE c

\* F.upper(col)
Upper(s) == IF s = NULL THEN NULL ELSE [i \in 1..Len(s) |-> UpperChar(s[i])]

\* F.regexp_replace(col, r'\s+', ''): every whitespace character removed
RemoveWhiteSpace(s) ==
    IF s = NULL THEN NULL ELSE SelectSeq(s, LAMBDA c : c \notin WhiteSpace)

\* F.length(col) = n
LengthIs(s, n) == IF s = NULL THEN SqlNull ELSE Bool3(Len(s) = n)

\* col.isin(values), values holding no NULL
IsIn(s, values) == IF s = NULL THEN SqlNull ELSE Bool3(s \in values)

\* the $ of a Java regular expression after e characters of s: the end of the
\* input, or just before a line terminator that ends the input
AtEnd(s, e) ==
    \/ e = Len(s)
    \/ e = Len(s) - 1 /\ s[Len(s)] \in {"\n", "\r"}
    \/ e = Len(s) - 2 /\ s[Len(s) - 1] = "\r" /\ s[Len(s)] = "\n"

-----------------------------------------------------------------------------
(* utils/validators.py *)

\* cleaned.rlike(r'^\d{6}$')
RLikeSixDigits(s) ==
    IF s = NULL THEN SqlNull
    ELSE Bool3(/\ Len(s) >= 6
               /\ \A i \in 1..6 : s[i] \in Digit
               /\ AtEnd(s, 6))

validate_singapore_postal_code(col) ==
    LET cleaned == RemoveWhiteSpace(col)
    IN  SqlAnd(LengthIs(cleaned, 6), RLikeSixDigits(cleaned))

\* col.rlike(r'^[STFGM]\d{7}[A-Z]$')
validate_singapore_nric(col) ==
    IF col = NULL THEN SqlNull
    ELSE Bool3(/\ Len(col) >= 9
               /\ col[1] \in {"S", "T", "F", "G", "M"}
               /\ \A i \in 2..8 : col[i] \in Digit
               /\ col[9] \in UpperLetter
               /\ AtEnd(col, 9))

validate_currency_code(col) ==
    IsIn(Upper(col), { <<"U", "S", "D">>, <<"R", "M", "B">>, <<"Y", "E", "N">>,
                       <<"S", "G", "D">>, <<"C", "N", "Y">>, <<"J", "P", "Y">> })

validate_nationality_code(col) ==
    IsIn(Upper(col), { <<"U", "S", "A">>, <<"U", "S">>, <<"U", "K">>, <<"G", "B">>,
                       <<"S", "G">>, <<"C", "N">>, <<"T", "W">>, <<"F", "R">>,
                       <<"D", "K">> })

validate_gender(col) == IsIn(Upper(col), { <<"M">>, <<"F">>, <<"X">> })

EmailLocalChar  == Letter \cup Digit \cup {".", "_", "%", "+", "-"}
EmailDomainChar == Letter \cup Digit \cup {".", "-"}

\* col.rlike(r'^[a-zA-Z0-9._%+-]+@[a-zA-Z0-9.-]+\.[a-zA-Z]{2,}$'):
\* a the place of the @, d the place of the dot before the top-level domain, e the end
RLikeEmail(s) ==
    IF s = NULL THEN SqlNull
    ELSE Bool3(\E a \in 1..Len(s), d \in 1..Len(s), e \in 1..Len(s) :
                   /\ 1 < a /\ a + 1 < d /\ d + 2 <= e
                   /\ s[a] = "@" /\ s[d] = "."
                   /\ \A i \in 1..(a - 1) : s[i] \in EmailLocalChar
                   /\ \A i \in (a + 1)..(d - 1) : s[i] \in EmailDomainChar
                   /\ \A i \in (d + 1)..e : s[i] \in Letter
                   /\ AtEnd(s, e))

validate_email(col) == SqlAnd(Bool3(col # NULL), RLikeEmail(col))

-----------------------------------------------------------------------------
(* utils/data_quality.py *)
(* validation_rules is the sequence, in the insertion order of the dict, of *)
(* [name, expr]: the rule's name and the value of its boolean Column on the *)
(* row at hand.                                                             *)

RECURSIVE ArrayJoin(_, _)
\* F.array_join(array, delimiter), the array holding no NULL
ArrayJoin(array, delimiter) ==
    IF array = <<>> THEN <<>>
    ELSE IF Len(array) = 1 THEN array[1]
    ELSE array[1] \o delimiter \o ArrayJoin(Tail(array), delimiter)

\* F.array_compact(array): the NULL elements removed
ArrayCompact(array) == SelectSeq(array, LAMBDA x : x # NULL)

\* a flag_invalid_values that flags every rule whose Column is not true
flag_invalid_values_unless_true(validation_rules) ==
    LET failed_validations ==
            [i \in 1..Len(validation_rules) |->
                IF validation_rules[i].expr # SqlTrue
                THEN validation_rules[i].name ELSE NULL]
        flags_string == ArrayJoin(ArrayCompact(failed_validations), <<",", " ">>)
    IN  IF flags_string # <<>> THEN flags_string ELSE NULL

\* the value of the column data_quality_flags
flag_invalid_values(validation_rules) ==
    LET failed_validations ==
            [i \in 1..Len(validation_rules) |->
                \* F.when(~validation_expr, F.lit(validation_name))
                IF SqlNot(validation_rules[i].expr) = SqlTrue
                THEN validation_rules[i].name ELSE NULL]
        flags_string == ArrayJoin(ArrayCompact(failed_validations), <<",", " ">>)
    IN  IF flags_string # <<>> THEN flags_string ELSE NULL

RECURSIVE PassedCount(_)
\* passed_count + F.when(validation_expr, 1).otherwise(0), over the rules
PassedCount(validation_rules) ==
    IF validation_rules = <<>> THEN 0
    ELSE (IF validation_rules[1].expr = SqlTrue THEN 1 ELSE 0)
         + PassedCount(Tail(validation_rules))

\* F.round(x, 2) of the quotient num / den, in hundredths, rounding half up
RoundHundredths(num, den) == (2 * 100 * num + den) \div (2 * den)

\* a score that drops the digits after the second decimal instead of rounding
add_quality_score_truncated(validation_rules) ==
    (PassedCount(validation_rules) * 10000) \div Len(validation_rules)

\* the value of the column quality_score, in hundredths (100.00 is 10000);
\* total_checks is not 0
add_quality_score(validation_rules) ==
    LET total_checks == Len(validation_rules)
        passed_count == PassedCount(validation_rules)
    IN  RoundHundredths(passed_count * 100, total_checks)

-----------------------------------------------------------------------------
(* The quality engine, run on one row under a non-empty rule mapping *)

RuleNric     == <<"n", "r", "i", "c">>
RuleEmail    == <<"e", "m", "a", "i", "l">>
RuleGender   == <<"g", "e", "n", "d", "e", "r">>
RuleCountry  == <<"c", "o", "u", "n", "t", "r", "y">>
RulePostal   == <<"p", "o", "s", "t", "a", "l", "_", "c", "o", "d", "e">>
RuleCurrency == <<"c", "u", "r", "r", "e", "n", "c", "y">>

\* the rule names: those of the standard customer configuration first
RuleOrder == <<RuleNric, RuleEmail, RuleGender, RuleCountry, RulePostal, RuleCurrency>>

RuleNames == {RuleOrder[i] : i \in 1..Len(RuleOrder)}

\* validation_func(F.col(col_name)) of the rule named name, on value v
Validate(name, v) ==
    CASE name = RuleNric     -> validate_singapore_nric(v)
      [] name = RuleEmail    -> validate_email(v)
      [] name = RuleGender   -> validate_gender(v)
      [] name = RuleCountry  -> validate_nationality_code(v)
      [] name = RulePostal   -> validate_singapore_postal_code(v)
      [] name = RuleCurrency -> validate_currency_code(v)

\* values a column may hold: NULL, well-formed and malformed ones
ColumnSamples(name) ==
    CASE name = RuleNric     -> << NULL, <<"S", "1", "2", "3", "4", "5", "6", "7", "D">>,
                                   <<"S", "1", "2", "3", "4", "5", "6", "D">>,
                                   <<"s", "1", "2", "3", "4", "5", "6", "7", "d">> >>
      [] name = RuleEmail    -> << NULL, <<"a", "@", "b", ".", "c", "o">>, <<"a", "@", "b">>,
                                   <<"N", "o", "n", "e">> >>
      [] name = RuleGender   -> << NULL, <<"M">>, <<"f">>, <<"Q">> >>
      [] name = RuleCountry  -> << NULL, <<"S", "G">>, <<"u", "k">>,
                                   <<"S", "I", "N", "G", "A", "P", "O", "R", "E">> >>
      [] name = RulePostal   -> << NULL, <<"1", "2", "3", "4", "5", "6">>,
                                   <<"1", "2", "3", "4", "5">>, <<>> >>
      [] name = RuleCurrency -> << NULL, <<"S", "G", "D">>, <<"y", "e", "n">>,
                                   <<"E", "U", "R">> >>

\* build_silver_table's validation_rules: each rule's Column, evaluated on the row
ValidationRules(names, row) ==
    [i \in 1..Len(names) |-> [name |-> names[i], expr |-> Validate(names[i], row[i])]]

\* a row before the engine has run: the rule mapping's keys in insertion order,
\* the value of each rule's column, and neither quality column yet
RawRow(names, row) ==
    [names |-> names, row |-> row, columns |-> {},
     data_quality_flags |-> NULL, quality_score |-> 0]

\* the rows the engine is run on: every non-empty rule mapping, every choice of
\* the sample values
DqInit ==
    \E cols \in (SUBSET RuleNames) \ {{}} :
        \E pick \in [cols -> 1..4] :
            LET names == SelectSeq(RuleOrder, LAMBDA n : n \in cols)
            IN  dq_row = RawRow(names, [i \in 1..Len(names) |->
                                          ColumnSamples(names[i])[pick[names[i]]]])

\* build_silver_table: result_df = data_quality.flag_invalid_values(...)
FlagInvalidValues ==
    dq_row' = [dq_row EXCEPT
                  !.columns = @ \cup {"data_quality_flags"},
                  !.data_quality_flags =
                      flag_invalid_values(ValidationRules(dq_row.names, dq_row.row))]

\* build_silver_table: result_df = data_quality.add_quality_score(...)
AddQualityScore ==
    dq_row' = [dq_row EXCEPT
                  !.columns = @ \cup {"quality_score"},
                  !.quality_score =
                      add_quality_score(ValidationRules(dq_row.names, dq_row.row))]

-----------------------------------------------------------------------------
(* utils/scd_builder.py *)

ToSet(seq) == {seq[i] : i \in 1..Len(seq)}

SCDType2Config(target_name, source_name, keys, sequence_by, track_history_columns, track_history_except_columns, ignore_null_updates, apply_as_deletes) ==
    [target_name                  |-> target_name,
     source_name                  |-> source_name,
     keys                         |-> keys,
     sequence_by                  |-> sequence_by,
     track_history_columns        |-> track_history_columns,
     track_history_except_columns |-> track_history_except_columns,
     ignore_null_updates          |-> ignore_null_updates,
     apply_as_deletes             |-> apply_as_deletes]

\* the metadata_columns of create_customer_scd_config
metadata_columns ==
    <<"ingested_file", "ingestion_ts", "silver_processed_ts", "data_quality_flags",
      "quality_score", "is_valid_postal_code">>

\* a create_customer_scd_config whose exclusion list lacks quality_score
create_customer_scd_config_tracks_score ==
    SCDType2Config(<<"customers", "_silver">>, <<"customers", "_silver_source">>,
                   <<"customer_id">>, "silver_processed_ts", None,
                   <<"ingested_file", "ingestion_ts", "silver_processed_ts",
                     "data_quality_flags", "is_valid_postal_code">>,
                   TRUE, None)

\* a create_customer_scd_config that lets NULL values overwrite
create_customer_scd_config_null_overwrites ==
    SCDType2Config(<<"customers", "_silver">>, <<"customers", "_silver_source">>,
                   <<"customer_id">>, "silver_processed_ts", None, metadata_columns,
                   FALSE, None)

\* create_customer_scd_config(): table_name "customers", keys None,
\* sequence_by "silver_processed_ts", track_all_columns False
create_customer_scd_config ==
    SCDType2Config(<<"customers", "_silver">>, <<"customers", "_silver_source">>,
                   <<"customer_id">>, "silver_processed_ts", None, metadata_columns,
                   TRUE, None)

create_generic_scd_config(table_name, keys, sequence_by, track_history_columns, track_history_except_columns, ignore_null_updates, apply_as_deletes) ==
    SCDType2Config(<<table_name, "_silver">>, <<table_name, "_silver_source">>, keys,
                   sequence_by, track_history_columns, track_history_except_columns,
                   ignore_null_updates, apply_as_deletes)

\* a flow created without the configuration's delete predicate
create_scd_type2_flow_without_deletes(config) ==
    [target                           |-> config.target_name,
     source                           |-> config.source_name,
     keys                             |-> config.keys,
     sequence_by                      |-> config.sequence_by,
     stored_as_scd_type               |-> 2,
     track_history_column_list        |-> config.track_history_columns,
     track_history_except_column_list |-> config.track_history_except_columns,
     ignore_null_updates              |-> config.ignore_null_updates,
     apply_as_deletes                 |-> None]

\* a flow created with the docstring's sequence_by, "ingestion_ts", in place of the
\* configuration's
create_scd_type2_flow_by_ingestion_ts(config) ==
    [target                           |-> config.target_name,
     source                           |-> config.source_name,
     keys                             |-> config.keys,
     sequence_by                      |-> "ingestion_ts",
     stored_as_scd_type               |-> 2,
     track_history_column_list        |-> config.track_history_columns,
     track_history_except_column_list |-> config.track_history_except_columns,
     ignore_null_updates              |-> config.ignore_null_updates,
     apply_as_deletes                 |-> config.apply_as_deletes]

\* the arguments create_scd_type2_flow_with_quality_checks(scd_config) hands to
\* dp.create_auto_cdc_flow (no silver_config: the source is read as it is)
create_scd_type2_flow_with_quality_checks(config) ==
    [target                           |-> config.target_name,
     source                           |-> config.source_name,
     keys                             |-> config.keys,
     sequence_by                      |-> config.sequence_by,
     stored_as_scd_type               |-> 2,
     track_history_column_list        |-> config.track_history_columns,
     track_history_except_column_list |-> config.track_history_except_columns,
     ignore_null_updates              |-> config.ignore_null_updates,
     apply_as_deletes                 |-> config.apply_as_deletes]

\* a "current" query that forgets the filter
query_scd_type2_current_unfiltered(table) == table

\* spark.read.table(table_name).filter(F.col("__END_AT").isNull())
query_scd_type2_current(table) == SelectSeq(table, LAMBDA v : v.__END_AT = NullTs)

\* .filter((__START_AT <= as_of) & (__END_AT.isNull() | (__END_AT > as_of)))
\* the point-in-time filter with the end of the interval included
query_scd_type2_as_of_closed_end(table, as_of_timestamp) ==
    SelectSeq(table, LAMBDA v : /\ v.__START_AT <= as_of_timestamp
                                /\ (v.__END_AT = NullTs \/ v.__END_AT >= as_of_timestamp))

query_scd_type2_as_of(table, as_of_timestamp) ==
    SelectSeq(table, LAMBDA v : /\ v.__START_AT <= as_of_timestamp
                                /\ (v.__END_AT = NullTs \/ v.__END_AT > as_of_timestamp))

\* orderBy("__START_AT"), rows of equal start in their stored order
RECURSIVE OrderByStartAt(_)
OrderByStartAt(table) ==
    IF table = <<>> THEN <<>>
    ELSE LET first == CHOOSE i \in 1..Len(table) :
                         \A j \in 1..Len(table) :
                            \/ table[i].__START_AT < table[j].__START_AT
                            \/ (table[i].__START_AT = table[j].__START_AT /\ i <= j)
             rest  == [k \in 1..(Len(table) - 1) |->
                         IF k < first THEN table[k] ELSE table[k + 1]]
         IN  <<table[first]>> \o OrderByStartAt(rest)

\* df.filter(F.col(key_col) == key_val) for key_values {"customer_id": key_val},
\* then orderBy("__START_AT")
query_scd_type2_history(table, key_val) ==
    OrderByStartAt(SelectSeq(table, LAMBDA v : v.rec.customer_id = key_val))

-----------------------------------------------------------------------------
(* The change stream of the SCD Type 2 flow *)

MaxSeq     == 3
MaxChanges == 3

CustomerIds == { <<"c", "1">>, <<"c", "2">> }

\* the columns of a change record, by type
StringColumns    == {"customer_id", "email", "ingested_file", "data_quality_flags"}
TimestampColumns == {"ingestion_ts", "silver_processed_ts"}
NumericColumns   == {"quality_score"}
BooleanColumns   == {"is_deleted", "is_valid_postal_code"}

ScdColumns == StringColumns \cup TimestampColumns \cup NumericColumns \cup BooleanColumns

\* col.isNull(), by the column's type
IsNullIn(column, value) ==
    CASE column \in StringColumns  -> value = NULL
      [] column \in BooleanColumns -> value = SqlNull
      [] OTHER                     -> value = NullTs

\* the metadata a pipeline run stamps on a record
BaseMetadata ==
    [ingested_file        |-> <<"f", "1">>,
     ingestion_ts         |-> 2,
     data_quality_flags   |-> NULL,
     quality_score        |-> 10000,
     is_valid_postal_code |-> SqlTrue]

\* the metadata of a later run: every metadata column differs
LaterMetadata ==
    [ingested_file        |-> <<"f", "2">>,
     ingestion_ts         |-> 1,
     data_quality_flags   |-> <<"e", "m", "a", "i", "l">>,
     quality_score        |-> 7500,
     is_valid_postal_code |-> SqlFalse]

MetadataVariants == {BaseMetadata, LaterMetadata}

ChangeRecord(id, email, is_deleted, seq, meta) ==
    [customer_id          |-> id,
     email                |-> email,
     is_deleted           |-> is_deleted,
     silver_processed_ts  |-> seq,
     ingested_file        |-> meta.ingested_file,
     ingestion_ts         |-> meta.ingestion_ts,
     data_quality_flags   |-> meta.data_quality_flags,
     quality_score        |-> meta.quality_score,
     is_valid_postal_code |-> meta.is_valid_postal_code]

NoChange == ChangeRecord(NULL, NULL, SqlNull, NullTs, BaseMetadata)

\* the configurations a flow is created with: the customer one, and a generic
\* one with a delete predicate (the column is_deleted being true)
ScdConfigs ==
    { create_customer_scd_config,
      create_generic_scd_config("customers", <<"customer_id">>, "silver_processed_ts",
                                None, metadata_columns, TRUE, <<"is_deleted">>) }

\* the flow of the configuration in use
Flow == create_scd_type2_flow_with_quality_checks(scd_config)

(* dp.create_auto_cdc_flow(..., stored_as_scd_type=2): the merge of one change *)
(* record into the target, after the transition rule of the SCD versioning    *)
(* contract.                                                                  *)

KeyOf(flow, rec) == [i \in 1..Len(flow.keys) |-> rec[flow.keys[i]]]

SequenceOf(flow, rec) == rec[flow.sequence_by]

\* the columns whose changes open a version
TrackedColumns(flow) ==
    IF flow.track_history_column_list # None
    THEN ToSet(flow.track_history_column_list)
    ELSE IF flow.track_history_except_column_list # None
    THEN ScdColumns \ ToSet(flow.track_history_except_column_list)
    ELSE ScdColumns

\* apply_as_deletes, a predicate "<column> = true" given by its column
IsDelete(flow, rec) ==
    /\ flow.apply_as_deletes # None
    /\ rec[flow.apply_as_deletes[1]] = SqlTrue

\* whether column c of the incoming record counts as a change of the current one
CountsAsChange(flow, current, incoming, c) ==
    /\ incoming[c] # current[c]
    /\ ~(flow.ignore_null_updates /\ IsNullIn(c, incoming[c]))

\* the record of the version a change opens over the current one
MergedRecord(flow, current, incoming) ==
    [c \in ScdColumns |->
        IF /\ flow.ignore_null_updates
           /\ c \in TrackedColumns(flow)
           /\ IsNullIn(c, incoming[c])
        THEN current[c] ELSE incoming[c]]

\* the rows of key's open versions
\* the open versions of every key
OpenRowsOfAnyKey(flow, table, key) ==
    {i \in 1..Len(table) : table[i].__END_AT = NullTs}

OpenRows(flow, table, key) ==
    {i \in 1..Len(table) : KeyOf(flow, table[i].rec) = key /\ table[i].__END_AT = NullTs}

CloseRows(table, rows, S) ==
    [i \in 1..Len(table) |-> IF i \in rows THEN [table[i] EXCEPT !.__END_AT = S] ELSE table[i]]

Version(rec, S) == [rec |-> rec, __START_AT |-> S, __END_AT |-> NullTs]

AutoCdcApply(flow, table, incoming) ==
    LET key  == KeyOf(flow, incoming)
        S    == SequenceOf(flow, incoming)
        open == OpenRows(flow, table, key)
    IN  IF IsDelete(flow, incoming)
        THEN CloseRows(table, open, S)
        ELSE IF open = {}
        THEN Append(table, Version(incoming, S))
        ELSE LET current == table[CHOOSE i \in open : TRUE].rec
             IN  IF \A c \in TrackedColumns(flow) : ~CountsAsChange(flow, current, incoming, c)
                 THEN table
                 ELSE Append(CloseRows(table, open, S),
                             Version(MergedRecord(flow, current, incoming), S))

ScdInit ==
    /\ scd_config \in ScdConfigs
    /\ scd_table = <<>>
    /\ scd_change = NoChange
    /\ scd_deletes = [k \in CustomerIds |-> {}]
    /\ scd_seq = [k \in CustomerIds |-> 0]
    /\ scd_count = 0

\* one change record of the source, applied by the flow. A key's changes arrive
\* in non-decreasing order of the configuration's sequence column, and none
\* arrives out of order: at or before the start of the key's current version
InOrder(id, S) ==
    /\ S >= scd_seq[id]
    /\ \A i \in 1..Len(scd_table) :
          (scd_table[i].rec.customer_id = id /\ scd_table[i].__END_AT = NullTs)
              => S > scd_table[i].rec[scd_config.sequence_by]

ApplyChange ==
    /\ scd_count < MaxChanges
    /\ \E id \in CustomerIds, S \in 1..MaxSeq, meta \in MetadataVariants,
          email \in {NULL, <<"a">>, <<"b">>}, is_deleted \in {SqlTrue, SqlFalse} :
          LET incoming == ChangeRecord(id, email, is_deleted, S, meta)
          IN  /\ InOrder(id, S)
              \* the sequence values in use are consecutive
              /\ S <= scd_seq[id] + 1
              /\ scd_change' = incoming
              /\ scd_table' = AutoCdcApply(Flow, scd_table, incoming)
              /\ scd_seq' = [scd_seq EXCEPT ![id] = S]
              /\ scd_deletes' =
                    IF /\ IsDelete(Flow, incoming)
                       /\ OpenRows(Flow, scd_table, KeyOf(Flow, incoming)) # {}
                    THEN [scd_deletes EXCEPT ![id] = @ \cup {SequenceOf(Flow, incoming)}]
                    ELSE scd_deletes
    /\ scd_count' = scd_count + 1
    /\ UNCHANGED scd_config

-----------------------------------------------------------------------------
(* transformations/governance/access_control.py: the table pii_access_grants *)
(* A user is written as a one-element sequence that holds the whole address. *)
(* Of a grant's columns, those customers_gold reads and granted_at are kept.  *)

MaxTime   == 2
MaxGrants == 1

Analyst    == <<"analyst@company.com">>
Scientist  == <<"scientist@company.com">>
Governance == <<"governance@company.com">>
Engineer   == <<"engineer@company.com">>

\* the users the pipeline may run as: one with a default grant, one with none
PipelineOwners == {Scientist, Engineer}

Grant(user_email, access_level, granted_at, expires_at, is_active) ==
    [user_email   |-> user_email,
     access_level |-> access_level,
     granted_at   |-> granted_at,
     expires_at   |-> expires_at,
     is_active    |-> is_active]

\* default_access, with now the time of the table's creation
pii_access_grants(created_at) ==
    { Grant(Analyst, masked_only, created_at, NullTs, TRUE),
      Grant(Scientist, partial_access, created_at, NullTs, TRUE),
      Grant(Governance, full_access, created_at, NullTs, TRUE) }

-----------------------------------------------------------------------------
(* transformations/gold/customers_gold.py *)

\* F.coalesce(a, b) on strings
Coalesce(a, b) == IF a # NULL THEN a ELSE b

\* a filter that keeps expired grants
user_access_filter_keeps_expired(grants, user, ts) ==
    {g \in grants : SqlEq(g.user_email, user) = SqlTrue /\ g.is_active = TRUE}

\* access_grants.filter(user_email == current_user).filter(is_active == True)
\*     .filter(expires_at.isNull() | (expires_at > current_timestamp()))
user_access_filter(grants, user, ts) ==
    {g \in grants : /\ SqlEq(g.user_email, user) = SqlTrue
                    /\ g.is_active = TRUE
                    /\ (g.expires_at = NullTs \/ g.expires_at > ts)}

\* .limit(1) of a DataFrame with no ordering: every result it may give
Limit1(rows) == IF rows = {} THEN {{}} ELSE {{r} : r \in rows}

\* one row of result_df, from a silver row and the row of user_access joined to it
GoldRow(s, user_access_level, ts, user) ==
    LET access_level == Coalesce(user_access_level, masked_only)
    IN  [customer_id        |-> s.customer_id,
         full_name          |-> s.full_name,
         email              |-> mask_email(s.email, access_level),
         phone              |-> mask_phone(s.phone, access_level),
         nric               |-> mask_nric(s.nric, access_level),
         dob                |-> s.dob,
         address            |-> mask_address(s.address, access_level),
         postal_code        |-> s.postal_code,
         country            |-> s.country,
         gender             |-> s.gender,
         signup_ts          |-> s.signup_ts,
         last_login_ts      |-> s.last_login_ts,
         status             |-> s.status,
         segment            |-> s.segment,
         credit_score       |-> s.credit_score,
         annual_income      |-> s.annual_income,
         data_quality_flags |-> s.data_quality_flags,
         quality_score      |-> s.quality_score,
         masked_at          |-> ts,
         masked_for_user    |-> user]

\* the contents a refresh may give the view: user_access is the outcome of
\* .limit(1), and silver_df.crossJoin(user_access) pairs every silver row with
\* every row of it
customers_gold(silver_df, grants, user, ts) ==
    { [refreshed   |-> TRUE,
       masked_at   |-> ts,
       user_access |-> user_access,
       rows        |-> {GoldRow(s, a.access_level, ts, user) : s \in silver_df, a \in user_access}]
      : user_access \in Limit1(user_access_filter(grants, user, ts)) }

-----------------------------------------------------------------------------
(* The refreshes of customers_gold, the clock and the grant workflow *)

SilverRow(id, full_name, email, phone, nric, address, postal_code, flags, score) ==
    [customer_id        |-> id,
     full_name          |-> full_name,
     email              |-> email,
     phone              |-> phone,
     nric               |-> nric,
     dob                |-> <<"1990-01-01">>,
     address            |-> address,
     postal_code        |-> postal_code,
     country            |-> <<"S", "G">>,
     gender             |-> <<"F">>,
     signup_ts          |-> 0,
     last_login_ts      |-> 0,
     status             |-> <<"active">>,
     segment            |-> <<"retail">>,
     credit_score       |-> 700,
     annual_income      |-> 50000,
     data_quality_flags |-> flags,
     quality_score      |-> score]

SilverSamples ==
    { SilverRow(<<"c", "1">>, <<"A", "L", "I", "C", "E">>,
                <<"a", "l", "i", "c", "e", "@", "e", "x", "a", "m", "p", "l", "e", ".", "c", "o", "m">>,
                <<"+", "6", "5", "9", "1", "2", "3", "4", "5", "6", "7">>,
                <<"S", "1", "2", "3", "4", "5", "6", "7", "D">>,
                <<"5", " ", "A", "n", "g", " ", "R", "d", " ", "1", "2", "3", "4", "5", "6">>,
                <<"1", "2", "3", "4", "5", "6">>, NULL, 10000),
      SilverRow(<<"c", "2">>, <<"B", "O", "B">>,
                <<"N", "o", "n", "e">>, <<"N", "o", "n", "e">>, NULL, <<"N", "o", "n", "e">>,
                <<>>, <<"n", "r", "i", "c", ",", " ", "e", "m", "a", "i", "l">>, 5000) }

NoGold == [refreshed |-> FALSE, masked_at |-> NullTs, user_access |-> {}, rows |-> {}]

GoldInit ==
    /\ now = 0
    /\ access_grants = pii_access_grants(0)
    /\ current_user \in PipelineOwners
    /\ customers_silver = SilverSamples
    /\ gold = NoGold
    /\ gold_prev = {}

\* time passes
Tick ==
    /\ now < MaxTime
    /\ now' = now + 1
    /\ UNCHANGED <<access_grants, current_user, customers_silver, gold, gold_prev>>

\* the approval workflow grants the pipeline owner a tier, from now or from
\* later on, for good or until a later time
GrantAccess ==
    /\ Cardinality(access_grants) < Cardinality(pii_access_grants(0)) + MaxGrants
    /\ \E user \in {current_user},
          access_level \in {full_access, masked_only},
          granted_at \in {now, now + 1},
          expires_at \in {NullTs} \cup ((now + 1)..MaxTime) :
          access_grants' = access_grants \cup
                              {Grant(user, access_level, granted_at, expires_at, TRUE)}
    /\ UNCHANGED <<now, current_user, customers_silver, gold, gold_prev>>

\* the workflow revokes a grant of the pipeline owner: is_active becomes false
RevokeAccess ==
    /\ \E g \in access_grants :
          /\ g.user_email = current_user
          /\ g.is_active
          /\ access_grants' = (access_grants \ {g}) \cup {[g EXCEPT !.is_active = FALSE]}
    /\ UNCHANGED <<now, current_user, customers_silver, gold, gold_prev>>

\* a pipeline refresh recomputes the materialized view customers_gold
RefreshGold ==
    /\ \E view \in customers_gold(customers_silver, access_grants, current_user, now) :
          gold' = view
    /\ gold_prev' = gold.user_access
    /\ UNCHANGED <<access_grants, now, current_user, customers_silver>>

-----------------------------------------------------------------------------
(* utils/transformations.py *)

\* F.trim(col): the space characters at both ends removed
Trim(s) ==
    IF s = NULL THEN NULL
    ELSE LET kept == {i \in 1..Len(s) : s[i] # " "}
         IN  IF kept = {} THEN <<>>
             ELSE SubSeq(s, CHOOSE i \in kept : \A j \in kept : i <= j,
                            CHOOSE i \in kept : \A j \in kept : i >= j)

\* str.startswith(prefix) and Column.startswith(prefix) on a value that is not NULL
StartsWith(s, prefix) ==
    Len(s) >= Len(prefix) /\ SubSeq(s, 1, Len(prefix)) = prefix

\* a standardizer that removes the whitespace and never pads
standardize_singapore_postal_code_unpadded(col) == RemoveWhiteSpace(col)

standardize_singapore_postal_code(col) ==
    LET cleaned == RemoveWhiteSpace(col)
    IN  IF cleaned # NULL /\ cleaned # <<>> /\ Len(cleaned) <= 6
           /\ \A i \in 1..Len(cleaned) : cleaned[i] \in Digit
        THEN [i \in 1..6 |-> IF i <= 6 - Len(cleaned) THEN "0"
                             ELSE cleaned[i - (6 - Len(cleaned))]]
        ELSE cleaned

standardize_nric(col) == Upper(Trim(col))

normalize_nationality_code(col) ==
    LET upper_col == Upper(Trim(col))
    IN  CASE upper_col \in { <<"U", "S", "A">>, <<"U", "S">> } -> <<"U", "S">>
          [] upper_col \in { <<"U", "K">>, <<"G", "B">> } -> <<"G", "B">>
          [] upper_col \in { <<"S", "G">>, <<"S", "I", "N", "G", "A", "P", "O", "R", "E">> }
                -> <<"S", "G">>
          [] upper_col \in { <<"C", "N">>, <<"C", "H", "I", "N", "A">> } -> <<"C", "N">>
          [] upper_col \in { <<"T", "W">>, <<"T", "A", "I", "W", "A", "N">> } -> <<"T", "W">>
          [] upper_col \in { <<"F", "R">>, <<"F", "R", "A", "N", "C", "E">> } -> <<"F", "R">>
          [] upper_col \in { <<"D", "K">>, <<"D", "E", "N", "M", "A", "R", "K">> }
                -> <<"D", "K">>
          [] OTHER -> upper_col

normalize_gender(col) ==
    LET upper_col == Upper(Trim(col))
    IN  IF upper_col \in { <<"M">>, <<"F">>, <<"X">> } THEN upper_col ELSE NULL

standardize_phone_number(col) ==
    IF col = NULL THEN NULL
    ELSE LET cleaned == SelectSeq(col, LAMBDA c : c \in Digit \cup {"+"})
         IN  IF StartsWith(cleaned, <<"+", "6", "5">>) THEN cleaned
             ELSE IF StartsWith(cleaned, <<"6", "5">>) THEN <<"+">> \o cleaned
             ELSE IF StartsWith(cleaned, <<"0">>)
                  THEN <<"+", "6", "5">> \o Substring(cleaned, 2, 100)
             ELSE IF Len(cleaned) = 8 THEN <<"+", "6", "5">> \o cleaned
             ELSE cleaned

\* func(F.col(col)) of the transformation function named func, on value v
Transform(func, v) ==
    CASE func = "standardize_nric"           -> standardize_nric(v)
      [] func = "normalize_gender"           -> normalize_gender(v)
      [] func = "normalize_nationality_code" -> normalize_nationality_code(v)
      [] func = "standardize_phone_number"   -> standardize_phone_number(v)

-----------------------------------------------------------------------------
(* utils/silver_builder.py *)
(* A DataFrame is written [columns, row]: the column names in order, and one *)
(* record's value under each name. A column name is a string of characters.  *)
(* A configuration's transformations and validations are the sequences, in   *)
(* the insertion order of the dicts, of [col, func].                         *)

\* the column names the source writes as literals
Col ==
    [customer_id          |-> <<"c", "u", "s", "t", "o", "m", "e", "r", "_", "i", "d">>,
     full_name            |-> <<"f", "u", "l", "l", "_", "n", "a", "m", "e">>,
     phone                |-> <<"p", "h", "o", "n", "e">>,
     address              |-> <<"a", "d", "d", "r", "e", "s", "s">>,
     is_valid_postal_code |-> <<"i", "s", "_", "v", "a", "l", "i", "d", "_",
                                "p", "o", "s", "t", "a", "l", "_", "c", "o", "d", "e">>,
     data_quality_flags   |-> <<"d", "a", "t", "a", "_", "q", "u", "a", "l", "i", "t", "y", "_",
                                "f", "l", "a", "g", "s">>,
     quality_score        |-> <<"q", "u", "a", "l", "i", "t", "y", "_", "s", "c", "o", "r", "e">>]

\* a withColumn that moves a column it replaces to the end
WithColumnMoved(df, name, value) ==
    [columns |-> Append(SelectSeq(df.columns, LAMBDA c : c # name), name),
     row     |-> [n \in ToSet(df.columns) \cup {name} |->
                     IF n = name THEN value ELSE df.row[n]]]

\* df.withColumn(name, value): replaces the column in place, or appends it
WithColumn(df, name, value) ==
    IF name \in ToSet(df.columns) THEN [df EXCEPT !.row[name] = value]
    ELSE [columns |-> Append(df.columns, name),
          row     |-> [n \in ToSet(df.columns) \cup {name} |->
                          IF n = name THEN value ELSE df.row[n]]]

\* a null fill that does not look whether the column exists
fill_nulls_with_none_unguarded(df, columns) ==
    LET step[k \in 0..Len(columns)] ==
            IF k = 0 THEN df
            ELSE LET filled == step[k - 1]
                 IN  WithColumn(filled, columns[k],
                                IF columns[k] \in ToSet(filled.columns)
                                   /\ filled.row[columns[k]] # NULL
                                THEN filled.row[columns[k]]
                                ELSE <<"N", "o", "n", "e">>)
    IN  step[Len(columns)]

\* data_quality.fill_nulls_with_none(df, columns)
fill_nulls_with_none(df, columns) ==
    LET step[k \in 0..Len(columns)] ==
            IF k = 0 THEN df
            ELSE LET filled == step[k - 1]
                 IN  IF columns[k] \in ToSet(filled.columns)
                     THEN WithColumn(filled, columns[k],
                                     IF filled.row[columns[k]] = NULL
                                     THEN <<"N", "o", "n", "e">>
                                     ELSE filled.row[columns[k]])
                     ELSE filled
    IN  step[Len(columns)]

SilverTableConfig(source_prefix, transformations, validations, null_fill_columns, uppercase_columns) ==
    [source_prefix      |-> source_prefix,
     transformations    |-> transformations,
     validations        |-> validations,
     null_fill_columns  |-> null_fill_columns,
     uppercase_columns  |-> uppercase_columns]

create_standard_customer_config ==
    SilverTableConfig(None,
        << [col |-> RuleNric,    func |-> "standardize_nric"],
           [col |-> RuleGender,  func |-> "normalize_gender"],
           [col |-> RuleCountry, func |-> "normalize_nationality_code"],
           [col |-> Col.phone,   func |-> "standardize_phone_number"] >>,
        << [col |-> RuleNric,    func |-> RuleNric],
           [col |-> RuleEmail,   func |-> RuleEmail],
           [col |-> RuleGender,  func |-> RuleGender],
           [col |-> RuleCountry, func |-> RuleCountry] >>,
        << RuleEmail, Col.phone, Col.address >>,
        << Col.full_name, RuleNric, RuleGender, RuleCountry >>)

build_silver_table(df, config, add_flags, add_score) ==
    LET prefix == config.source_prefix
        \* the name a column has after the prefix step
        Prefixed(c) == IF prefix = None \/ prefix = <<>> \/ StartsWith(c, prefix)
                       THEN c ELSE prefix \o c
        prefixed_df ==
            [columns |-> [i \in 1..Len(df.columns) |-> Prefixed(df.columns[i])],
             row     |-> [n \in {Prefixed(c) : c \in ToSet(df.columns)} |->
                             df.row[CHOOSE c \in ToSet(df.columns) : Prefixed(c) = n]]]
        ts == config.transformations
        transformed[k \in 0..Len(ts)] ==
            IF k = 0 THEN prefixed_df
            ELSE LET result_df == transformed[k - 1]
                 IN  IF ts[k].col \in ToSet(result_df.columns)
                     THEN WithColumn(result_df, ts[k].col,
                                     Transform(ts[k].func, result_df.row[ts[k].col]))
                     ELSE result_df
        us == config.uppercase_columns
        uppercased[k \in 0..Len(us)] ==
            IF k = 0 THEN transformed[Len(ts)]
            ELSE LET result_df == uppercased[k - 1]
                 IN  IF us[k] \in ToSet(result_df.columns)
                     THEN WithColumn(result_df, us[k], Upper(Trim(result_df.row[us[k]])))
                     ELSE result_df
        filled == IF config.null_fill_columns # <<>>
                  THEN fill_nulls_with_none(uppercased[Len(us)], config.null_fill_columns)
                  ELSE uppercased[Len(us)]
        present == SelectSeq(config.validations, LAMBDA v : v.col \in ToSet(filled.columns))
        validation_rules ==
            [i \in 1..Len(present) |->
                [name |-> present[i].col,
                 expr |-> Validate(present[i].func, filled.row[present[i].col])]]
        flagged == IF add_flags /\ validation_rules # <<>>
                   THEN WithColumn(filled, Col.data_quality_flags,
                                   flag_invalid_values(validation_rules))
                   ELSE filled
    IN  IF add_score /\ validation_rules # <<>>
        THEN WithColumn(flagged, Col.quality_score, add_quality_score(validation_rules))
        ELSE flagged

\* extract_postal_code_and_validate(df, address_col), the values of
\* is_valid_postal_code written as SQL booleans
extract_postal_code_and_validate(df, address_col) ==
    LET extracted    == WithColumn(df, RulePostal, RegexpExtractPostal(df.row[address_col]))
        standardized == WithColumn(extracted, RulePostal,
                                   standardize_singapore_postal_code(extracted.row[RulePostal]))
    IN  WithColumn(standardized, Col.is_valid_postal_code,
                   validate_singapore_postal_code(standardized.row[RulePostal]))

-----------------------------------------------------------------------------
(* transformations/silver/customers_silver.py *)
(* Of the columns customers_silver selects, those the standard customer      *)
(* configuration and the postal code step read or write are kept, and        *)
(* customer_id; the remaining ones pass through untouched.                   *)

\* the table function customers_silver, on one record of customers_raw
customers_silver_table(bronze_df) ==
    LET silver_df == extract_postal_code_and_validate(
                         build_silver_table(bronze_df, create_standard_customer_config,
                                            TRUE, TRUE),
                         Col.address)
        selected  == << Col.customer_id, Col.full_name, RuleEmail, Col.phone, RuleNric,
                        Col.address, RulePostal, RuleCountry, RuleGender,
                        Col.data_quality_flags, Col.quality_score, Col.is_valid_postal_code >>
    IN  [columns |-> selected, row |-> [n \in ToSet(selected) |-> silver_df.row[n]]]

-----------------------------------------------------------------------------
(* The silver builder, called on bounded records and configurations *)

\* the calls of the builder: customer_id; full_name under its own name or already
\* carrying the prefix; every other column absent, NULL or a sample; a record the
\* builder has or has not processed before; four configurations
SilverInit ==
    \E nric \in {None, NULL, <<" ", "s", "1", "2", "3", "4", "5", "6", "7", "d">>,
                 <<"S", "1", "2", "3">>},
       email \in {None, NULL, <<"a", "@", "b", ".", "c", "o">>, <<"a", "@", "b">>},
       gender \in {None, NULL, <<" ", "f">>, <<"Q">>},
       country \in {None, NULL, <<"u", "k">>, <<"Z", "Z">>},
       phone \in {None, NULL, <<"9", "1", "2", "3", " ", "4", "5", "6", "7">>},
       address \in {None, NULL, <<"1", " ", "A", " ", "1", "2", "3", "4", "5", "6">>},
       full_name \in {Col.full_name, <<"s", "r", "c", "_">> \o Col.full_name},
       mode \in {<<TRUE, TRUE, FALSE>>, <<TRUE, TRUE, TRUE>>, <<TRUE, FALSE, FALSE>>,
                 <<FALSE, TRUE, FALSE>>, <<FALSE, FALSE, TRUE>>},
       config \in
         { create_standard_customer_config,
           [create_standard_customer_config EXCEPT !.source_prefix = <<"s", "r", "c", "_">>],
           SilverTableConfig(None, <<>>, <<>>, <<>>, <<>>),
           SilverTableConfig(<<"s", "r", "c", "_">>,
               << [col |-> <<"s", "r", "c", "_">> \o RuleGender, func |-> "normalize_gender"] >>,
               << [col |-> <<"s", "r", "c", "_">> \o RuleGender, func |-> RuleGender],
                  [col |-> <<"s", "r", "c", "_">> \o RuleEmail,  func |-> RuleEmail] >>,
               << <<"s", "r", "c", "_">> \o RuleEmail >>,
               << <<"s", "r", "c", "_">> \o Col.full_name >>) } :
        LET cells == << [name |-> Col.customer_id, value |-> <<"1">>],
                        [name |-> full_name,   value |-> <<" ", "a", "l">>],
                        [name |-> RuleEmail,   value |-> email],
                        [name |-> Col.phone,   value |-> phone],
                        [name |-> RuleNric,    value |-> nric],
                        [name |-> Col.address, value |-> address],
                        [name |-> RuleCountry, value |-> country],
                        [name |-> RuleGender,  value |-> gender] >>
            kept  == SelectSeq(cells, LAMBDA c : c.value # None)
            add_flags == mode[1]
            add_score == mode[2]
            processed == mode[3]
            raw   == [columns |-> [i \in 1..Len(kept) |-> kept[i].name],
                      row     |-> [n \in {c.name : c \in ToSet(kept)} |->
                                      (CHOOSE c \in ToSet(kept) : c.name = n).value]]
        IN  silver = [op        |-> "none",
                      df        |-> IF processed
                                    THEN WithColumn(WithColumn(raw, Col.data_quality_flags,
                                                               <<"n", "r", "i", "c">>),
                                                    Col.quality_score, 5000)
                                    ELSE raw,
                      config    |-> config,
                      add_flags |-> add_flags,
                      add_score |-> add_score,
                      result    |-> [columns |-> <<>>, row |-> <<>>]]

\* silver_df = build_silver_table(df, config, add_quality_flags, add_quality_score)
BuildSilverTable ==
    /\ silver.op = "none"
    /\ silver' = [silver EXCEPT
                     !.op = "build_silver_table",
                     !.result = build_silver_table(silver.df, silver.config,
                                                   silver.add_flags, silver.add_score)]

\* the table customers_silver computed from a record of customers_raw, which
\* holds every column the final select names and no quality column yet
CustomersSilver ==
    /\ silver.op = "none"
    /\ silver.config = create_standard_customer_config
    /\ silver.add_flags /\ silver.add_score
    /\ ToSet(silver.df.columns) =
           {Col.customer_id, Col.full_name, RuleEmail, Col.phone, RuleNric, Col.address,
            RuleCountry, RuleGender}
    /\ silver' = [silver EXCEPT !.op = "customers_silver",
                                !.result = customers_silver_table(silver.df)]

-----------------------------------------------------------------------------
(* utils/column_utils.py *)

MaxNameLen == 5
MaxCalls   == 2

RECURSIVE Replace(_, _, _)
\* str.replace(old, new): the occurrences of old, found from the left and not
\* overlapping, each replaced by new
Replace(s, old, new) ==
    IF Len(s) < Len(old) THEN s
    ELSE IF SubSeq(s, 1, Len(old)) = old
         THEN new \o Replace(SubSeq(s, Len(old) + 1, Len(s)), old, new)
         ELSE <<s[1]>> \o Replace(Tail(s), old, new)

normalize_column_name(col_name) ==
    LET kept     == {i \in 1..Len(col_name) : col_name[i] \notin WhiteSpace}
        stripped == IF kept = {} THEN <<>>
                    ELSE SubSeq(col_name, CHOOSE i \in kept : \A j \in kept : i <= j,
                                          CHOOSE i \in kept : \A j \in kept : i >= j)
        lower    == [i \in 1..Len(stripped) |->
                        IF stripped[i] \in UpperLetter
                        THEN LowerSeq[CHOOSE k \in 1..Len(UpperSeq) : UpperSeq[k] = stripped[i]]
                        ELSE stripped[i]]
    IN  Replace(Replace(lower, <<" ">>, <<"_">>), <<"_", "_">>, <<"_">>)

\* normalize_column_name called on the name it returned last, or on the first name
NormalizeColumnName ==
    /\ Len(column_name) <= MaxCalls
    /\ column_name' = Append(column_name,
                             normalize_column_name(column_name[Len(column_name)]))

\* the names of the test table and every name of at most MaxNameLen characters
\* over a small alphabet
ColumnsInit ==
    \E col_name \in
          { <<" ", " ", "C", "u", "s", "t", "o", "m", "e", "r", " ", "I", "D", " ", " ">>,
            <<"E", "m", "a", "i", "l", " ", " ", "A", "d", "d", "r", "e", "s", "s">> }
          \cup UNION {[1..n -> {" ", "\t", "_", "a", "B"}] : n \in 0..MaxNameLen} :
        column_name = <<col_name>>

-----------------------------------------------------------------------------
(* The standardizers of utils/transformations.py and normalize_dataframe_columns *)
(* of utils/column_utils.py, called on bounded inputs                           *)

MaxValueLen == 5
MaxColumns  == 3

\* normalize_dataframe_columns(df), on the column names of df: the names after
\* no, one, ... and all of the loop's renames. withColumnRenamed(existing, new)
\* renames every column the session's resolver matches with existing, which
\* compares case-insensitively unless spark.sql.caseSensitive is set.
normalize_dataframe_columns(columns, case_sensitive) ==
    LET Resolver(a, b) == IF case_sensitive THEN a = b ELSE Upper(a) = Upper(b)
        renamed[k \in 0..Len(columns)] ==
            IF k = 0 THEN columns
            ELSE LET df == renamed[k - 1]
                 IN  [i \in 1..Len(df) |->
                         IF Resolver(df[i], columns[k])
                         THEN normalize_column_name(columns[k])
                         ELSE df[i]]
    IN  [k \in 1..(Len(columns) + 1) |-> renamed[k - 1]]

\* the values the standardizers are called on: NULL, the examples, every postal
\* code of at most MaxValueLen + 2 characters and every phone number of at most
\* MaxValueLen characters over small alphabets; the DataFrames
\* normalize_dataframe_columns is called on: at most MaxColumns columns
UtilInit ==
    \/ \E col \in {NULL, <<"1", "2", "3">>, <<"A", "B", "C", "1", "2", "3">>,
                    <<" ", " ", "1", "2", "3", "4", "5", "6", " ", " ">>,
                    <<"9", "1", "2", "3", " ", "4", "5", "6", "7">>,
                    <<"+", "6", "5", " ", "9", "1", "2", "3", "4", "5", "6", "7">>,
                    <<"6", "5", "9", "1", "2", "3", "4", "5", "6", "7">>,
                    <<"0", "9", "1", "2", "3", "4", "5", "6", "7">>,
                    <<"9", "1", "2", "3", "4", "5", "6", "7", "8">>,
                    <<"9", "1", "2", "3", "+", "4", "5", "6", "7">>,
                    <<"+", "1", "2", "3", "4", "5", "6", "7">>}
                   \cup UNION {[1..n -> {" ", "1", "A"}] : n \in 0..(MaxValueLen + 2)}
                   \cup UNION {[1..n -> {"+", "6", "5", "0", "-"}] : n \in 0..MaxValueLen} :
          util_call = [fn |-> "none", col |-> col, case_sensitive |-> FALSE, result |-> NULL]
    \/ \E columns \in UNION {[1..n -> { <<"a">>, <<"A">>, <<"a", " ">>, <<"A", " ", "B">>,
                                         <<"a", "_", "b">>, <<"a", "_", "_", "b">>,
                                         <<"a", "_", "_", "_", "b">> }] : n \in 0..MaxColumns},
          case_sensitive \in BOOLEAN :
          util_call = [fn |-> "none", col |-> NULL, columns |-> columns,
                       case_sensitive |-> case_sensitive, result |-> NULL]

StandardizePostalCode ==
    /\ util_call.fn = "none"
    /\ "columns" \notin DOMAIN util_call
    /\ util_call' = [util_call EXCEPT
                        !.fn = "standardize_singapore_postal_code",
                        !.result = standardize_singapore_postal_code(util_call.col)]

StandardizePhoneNumber ==
    /\ util_call.fn = "none"
    /\ "columns" \notin DOMAIN util_call
    /\ util_call' = [util_call EXCEPT
                        !.fn = "standardize_phone_number",
                        !.result = standardize_phone_number(util_call.col)]

NormalizeDataframeColumns ==
    /\ util_call.fn = "none"
    /\ "columns" \in DOMAIN util_call
    /\ util_call' = [util_call EXCEPT
                        !.fn = "normalize_dataframe_columns",
                        !.result = normalize_dataframe_columns(util_call.columns,
                                                               util_call.case_sensitive)]

-----------------------------------------------------------------------------
(* Specifications *)

\* the initial states of the specification of one part: that part's inputs, every
\* other part at rest
InitOf(part) ==
    /\ IF part = "mask" THEN MaskInit ELSE pii_call = NoCall(NULL, NULL)
    /\ IF part = "quality" THEN DqInit ELSE dq_row = RawRow(<<RuleGender>>, <<NULL>>)
    /\ ScdInit
    /\ part # "scd" => scd_config = create_customer_scd_config
    /\ GoldInit
    /\ part # "gold" => current_user = Scientist
    /\ IF part = "silver" THEN SilverInit
       ELSE silver = [op |-> "none", df |-> [columns |-> <<>>, row |-> <<>>],
                      config |-> SilverTableConfig(None, <<>>, <<>>, <<>>, <<>>),
                      add_flags |-> TRUE, add_score |-> TRUE,
                      result |-> [columns |-> <<>>, row |-> <<>>]]
    /\ IF part = "columns" THEN ColumnsInit ELSE column_name = << <<>> >>
    /\ IF part = "utils" THEN UtilInit ELSE util_call = [fn |-> "none", col |-> NULL, case_sensitive |-> FALSE,
                         result |-> NULL]

Init == InitOf("gold")

\* the gold pipeline: refreshes of customers_gold under a changing grant table
GoldNext ==
    \/ Tick
    \/ GrantAccess
    \/ RevokeAccess
    \/ RefreshGold

Next ==
    GoldNext /\ UNCHANGED <<pii_call, dq_row, scd_config, scd_table, scd_change, scd_deletes,
                            scd_seq, scd_count, silver, column_name, util_call>>

Spec == Init /\ [][Next]_vars

\* the masking functions on bounded inputs
MaskSpecInit == InitOf("mask")

MaskNext ==
    /\ \/ MaskEmail
       \/ MaskPhone
       \/ MaskNric
       \/ MaskAddress
       \/ MaskSsn
    /\ UNCHANGED <<dq_row, scd_config, scd_table, scd_change, scd_deletes, scd_seq, scd_count,
                   access_grants, now, current_user, customers_silver, gold, gold_prev,
                   silver, column_name, util_call>>

SpecMask == MaskSpecInit /\ [][MaskNext]_vars

\* the quality engine on bounded rows and rule mappings
DqSpecInit == InitOf("quality")

DqNext ==
    /\ \/ FlagInvalidValues
       \/ AddQualityScore
    /\ UNCHANGED <<pii_call, scd_config, scd_table, scd_change, scd_deletes, scd_seq,
                   scd_count, access_grants, now, current_user, customers_silver, gold,
                   gold_prev, silver, column_name, util_call>>

SpecQuality == DqSpecInit /\ [][DqNext]_vars

\* the SCD Type 2 flow over a bounded change stream
ScdSpecInit == InitOf("scd")

ScdNext ==
    ApplyChange /\ UNCHANGED <<pii_call, dq_row, access_grants, now, current_user,
                               customers_silver, gold, gold_prev, silver, column_name,
                               util_call>>

SpecSCD == ScdSpecInit /\ [][ScdNext]_vars

\* the silver builder on bounded records and configurations
SilverSpecInit == InitOf("silver")

SilverNext ==
    /\ \/ BuildSilverTable
       \/ CustomersSilver
    /\ UNCHANGED <<pii_call, dq_row, scd_config, scd_table, scd_change, scd_deletes, scd_seq,
                   scd_count, access_grants, now, current_user, customers_silver, gold,
                   gold_prev, column_name, util_call>>

SpecSilver == SilverSpecInit /\ [][SilverNext]_vars

\* normalize_column_name on bounded names
ColumnsSpecInit == InitOf("columns")

ColumnsNext ==
    NormalizeColumnName
    /\ UNCHANGED <<pii_call, dq_row, scd_config, scd_table, scd_change, scd_deletes, scd_seq,
                   scd_count, access_grants, now, current_user, customers_silver, gold,
                   gold_prev, silver, util_call>>

SpecColumns == ColumnsSpecInit /\ [][ColumnsNext]_vars

\* the postal code and phone standardizers and normalize_dataframe_columns on
\* bounded inputs
UtilSpecInit == InitOf("utils")

UtilNext ==
    /\ \/ StandardizePostalCode
       \/ StandardizePhoneNumber
       \/ NormalizeDataframeColumns
    /\ UNCHANGED <<pii_call, dq_row, scd_config, scd_table, scd_change, scd_deletes, scd_seq,
                   scd_count, access_grants, now, current_user, customers_silver, gold,
                   gold_prev, silver, column_name>>

SpecUtils == UtilSpecInit /\ [][UtilNext]_vars

-----------------------------------------------------------------------------
(* Properties of the customers_gold refresh (specification Spec) *)

\* C1: at a refresh where the current user has no effective grant, every
\* customers_silver row appears in the gold output, one gold row per silver row,
\* with email, phone, nric and address masked at the masked-only tier.
C1_NoGrantKeepsEveryRowMasked ==
    (gold.refreshed /\ gold.user_access = {}) =>
        /\ Cardinality(gold.rows) = Cardinality(customers_silver)
        /\ \A s \in customers_silver :
              \E r \in gold.rows :
                  /\ r.customer_id = s.customer_id
                  /\ r.email = EmailMasked
                  /\ r.phone = Stars3
                  /\ r.nric = Stars3
                  /\ r.address = Stars3

\* C10: at every refresh, each grant the tier is taken from is a row of the grant
\* table as it is at that refresh, belongs to the current user, is active and
\* has no expires_at at or before the time of the refresh.
C10_TierOnlyFromEffectiveGrant ==
    [][RefreshGold =>
          \A g \in gold'.user_access :
              /\ g \in access_grants
              /\ g.user_email = current_user
              /\ g.is_active
              /\ (g.expires_at = NullTs \/ g.expires_at > now)]_vars

\* a refresh whose tier comes from another grant than the refresh before it, the
\* earlier grant having expired or been revoked in between
C10_Witness ==
    /\ gold.refreshed
    /\ gold.user_access # {}
    /\ \E g \in gold_prev :
          /\ g \notin gold.user_access
          /\ \/ (g.expires_at # NullTs /\ g.expires_at <= gold.masked_at)
             \/ [g EXCEPT !.is_active = FALSE] \in access_grants
    /\ gold.rows # {}

\* C11: at every refresh, no grant the tier is taken from has a granted_at later
\* than the time of the refresh.
C11_TierNeverFromFutureGrant ==
    [][RefreshGold => \A g \in gold'.user_access : g.granted_at <= now]_vars

\* C12: whatever the grant table holds, the refreshes that may run over it at
\* one time all resolve the same tier, and the view of a refresh carries one
\* tier on every row.
C12_OneTierByDeterministicOrder ==
    /\ \A v, w \in customers_gold(customers_silver, access_grants, current_user, now) :
          {a.access_level : a \in v.user_access} = {a.access_level : a \in w.user_access}
    /\ gold.refreshed =>
          \/ gold.rows = {}
          \/ \E lvl \in {full_access, partial_access, masked_only} :
                gold.rows = {GoldRow(s, lvl, gold.masked_at, current_user) :
                                s \in customers_silver}

-----------------------------------------------------------------------------
(* Properties of the masking functions (specification SpecMask) *)

\* C2: each masking function, called with an access level other than exactly
\* 'full_access' or 'partial_access', returns the masked-only constant:
\* '***@***' for mask_email, '***' for the others, whatever the field value.
C2_UnknownTierIsMaskedOnly ==
    (pii_call.fn # "none" /\ pii_call.access_level \notin {full_access, partial_access}) =>
        pii_call.result = IF pii_call.fn = "mask_email" THEN EmailMasked ELSE Stars3

\* mask_phone called on a phone number with FULL_ACCESS in capital letters
C2_Witness ==
    /\ pii_call.fn = "mask_phone"
    /\ pii_call.access_level = <<"F", "U", "L", "L", "_", "A", "C", "C", "E", "S", "S">>
    /\ pii_call.col = <<"+", "6", "5", "9", "1", "2", "3", "4", "5", "6", "7">>
    /\ pii_call.result = Stars3

\* C21, as stated: mask_email of 'alice@example.com' at the tier value 'partial'
\* is 'a***@example.com'.
C21_PartialByShortName ==
    (/\ pii_call.fn = "mask_email"
     /\ pii_call.col = <<"a", "l", "i", "c", "e", "@", "e", "x", "a", "m", "p", "l", "e", ".",
                         "c", "o", "m">>
     /\ pii_call.access_level = <<"p", "a", "r", "t", "i", "a", "l">>)
        => pii_call.result = <<"a", "*", "*", "*", "@", "e", "x", "a", "m", "p", "l", "e", ".",
                               "c", "o", "m">>

\* C21, amended: the partial tier is selected by the tier value 'partial_access';
\* there mask_email of an address with one @ after a non-empty local part is the
\* first character of the local part, '***@' and the domain, 'a***@example.com'
\* for 'alice@example.com'. The value 'partial' is no tier and gives '***@***'.
C21_PartialByTierValue ==
    (pii_call.fn = "mask_email" /\ pii_call.col # NULL) =>
        LET col == pii_call.col
            ats == {i \in 1..Len(col) : col[i] = "@"}
            at  == CHOOSE i \in ats : TRUE
        IN  /\ (pii_call.access_level = partial_access /\ Cardinality(ats) = 1 /\ at > 1) =>
                   pii_call.result = <<col[1], "*", "*", "*", "@">> \o SubSeq(col, at + 1, Len(col))
            /\ (/\ pii_call.access_level = partial_access
                /\ col = <<"a", "l", "i", "c", "e", "@", "e", "x", "a", "m", "p", "l", "e", ".",
                           "c", "o", "m">>) =>
                   pii_call.result = <<"a", "*", "*", "*", "@", "e", "x", "a", "m", "p", "l", "e",
                                       ".", "c", "o", "m">>
            /\ pii_call.access_level = <<"p", "a", "r", "t", "i", "a", "l">> =>
                   pii_call.result = EmailMasked

C21_Witness ==
    /\ pii_call.fn = "mask_email"
    /\ pii_call.access_level = partial_access
    /\ pii_call.col = <<"a", "l", "i", "c", "e", "@", "e", "x", "a", "m", "p", "l", "e", ".",
                        "c", "o", "m">>
    /\ pii_call.result = <<"a", "*", "*", "*", "@", "e", "x", "a", "m", "p", "l", "e", ".",
                           "c", "o", "m">>

\* C22: mask_phone at the tier partial_access, of '+65' and 8 digits, is
\* '+65 ****' and the last 4 digits.
C22_PartialPhoneKeepsLastFour ==
    (/\ pii_call.fn = "mask_phone"
     /\ pii_call.access_level = partial_access
     /\ pii_call.col # NULL
     /\ Len(pii_call.col) = 11
     /\ SubSeq(pii_call.col, 1, 3) = <<"+", "6", "5">>
     /\ \A i \in 4..11 : pii_call.col[i] \in Digit)
        => pii_call.result = <<"+", "6", "5", " ", "*", "*", "*", "*">>
                             \o SubSeq(pii_call.col, 8, 11)

\* C23: at the tier value 'full_access' each of the five masking functions
\* returns its input, whatever the input: NULL and malformed values too.
C23_FullAccessIsIdentity ==
    (pii_call.fn # "none" /\ pii_call.access_level = full_access) =>
        pii_call.result = pii_call.col

\* mask_address at full_access on NULL, or mask_email on a value without @
C23_Witness ==
    /\ pii_call.access_level = full_access
    /\ \/ pii_call.fn = "mask_address" /\ pii_call.col = NULL /\ pii_call.result = NULL
       \/ /\ pii_call.fn = "mask_email"
          /\ pii_call.col = <<"7", " ">>
          /\ pii_call.result = <<"7", " ">>

-----------------------------------------------------------------------------
(* Properties of the quality engine (specification SpecQuality) *)

\* C3: for every record the engine has processed under a non-empty rule
\* mapping, quality_score lies in [0, 100] and is 100 exactly when
\* data_quality_flags is null. (quality_score is kept in hundredths.)
C3_ScoreIs100IffNoFlags ==
    ({"data_quality_flags", "quality_score"} \subseteq dq_row.columns) =>
        /\ dq_row.quality_score \in 0..10000
        /\ (dq_row.quality_score = 10000) <=> (dq_row.data_quality_flags = NULL)

\* C13: on every record the engine has processed, each validator of the rule
\* mapping yields true or false on its column's value, never NULL, and yields
\* false when that value is NULL.
C13_ValidatorsTwoValued ==
    (dq_row.columns # {}) =>
        \A i \in 1..Len(dq_row.names) :
            LET expr == ValidationRules(dq_row.names, dq_row.row)[i].expr
            IN  /\ expr \in {SqlTrue, SqlFalse}
                /\ (dq_row.row[i] = NULL) => (expr = SqlFalse)

\* C14: data_quality_flags is the names of the rules whose validator returned
\* false, in the order of the rule mapping, joined by ', '; it is NULL when no
\* rule failed and never the empty string.
C14_FlagsAreFailedRuleNames ==
    ("data_quality_flags" \in dq_row.columns) =>
        LET rules  == ValidationRules(dq_row.names, dq_row.row)
            failed == SelectSeq(rules, LAMBDA r : r.expr = SqlFalse)
            joined[k \in 0..Len(failed)] ==
                IF k = 0 THEN <<>>
                ELSE IF k = 1 THEN failed[1].name
                ELSE joined[k - 1] \o <<",", " ">> \o failed[k].name
        IN  /\ dq_row.data_quality_flags # <<>>
            /\ dq_row.data_quality_flags =
                  IF failed = <<>> THEN NULL ELSE joined[Len(failed)]

\* a record with no nric, a malformed email and an unknown gender: the flags are
\* 'email, gender'
C14_Witness ==
    /\ "data_quality_flags" \in dq_row.columns
    /\ dq_row.names = <<RuleNric, RuleEmail, RuleGender>>
    /\ dq_row.row = <<NULL, <<"a", "@", "b">>, <<"Q">> >>
    /\ dq_row.data_quality_flags =
          <<"e", "m", "a", "i", "l", ",", " ", "g", "e", "n", "d", "e", "r">>

-----------------------------------------------------------------------------
(* Properties of the silver builder (specification SpecSilver) *)

\* C15, as stated: the score build_silver_table computes is 100 * passed / total
\* rounded half up to two decimals, total counting the configured validations
\* whose column is among the columns of the input and passed those of them whose
\* validator returned true; no score is computed when total is 0.
C15_ScoreOverInputColumns ==
    (silver.op = "build_silver_table" /\ silver.add_score) =>
        LET rules  == SelectSeq(silver.config.validations,
                                LAMBDA v : v.col \in ToSet(silver.df.columns))
            ran    == {i \in 1..Len(rules) : rules[i].col \in ToSet(silver.result.columns)}
            passed == Cardinality({i \in ran : Validate(rules[i].func,
                                      silver.result.row[rules[i].col]) = SqlTrue})
            total  == Len(rules)
            score  == silver.result.row[Col.quality_score]
        IN  IF total = 0
            THEN Col.quality_score \in ToSet(silver.result.columns) =>
                    /\ Col.quality_score \in ToSet(silver.df.columns)
                    /\ score = silver.df.row[Col.quality_score]
            ELSE /\ Col.quality_score \in ToSet(silver.result.columns)
                 /\ 2 * total * score <= 2 * 10000 * passed + total
                 /\ 2 * 10000 * passed + total < 2 * total * (score + 1)

\* C15, amended: the same, total counting the configured validations whose column
\* is among the columns the record has after the prefix step (the columns of the
\* input when no prefix is configured).
C15_ScoreOverPrefixedColumns ==
    (silver.op = "build_silver_table" /\ silver.add_score) =>
        LET prefix == silver.config.source_prefix
            cols   == {IF prefix = None \/ StartsWith(c, prefix) THEN c ELSE prefix \o c :
                          c \in ToSet(silver.df.columns)}
            rules  == SelectSeq(silver.config.validations, LAMBDA v : v.col \in cols)
            passed == Cardinality({i \in 1..Len(rules) : Validate(rules[i].func,
                                      silver.result.row[rules[i].col]) = SqlTrue})
            total  == Len(rules)
            score  == silver.result.row[Col.quality_score]
        IN  IF total = 0
            THEN Col.quality_score \in ToSet(silver.result.columns) =>
                    /\ Col.quality_score \in cols
                    /\ Col.quality_score \in ToSet(silver.df.columns)
                    /\ score = silver.df.row[Col.quality_score]
            ELSE /\ Col.quality_score \in ToSet(silver.result.columns)
                 /\ 2 * total * score <= 2 * 10000 * passed + total
                 /\ 2 * 10000 * passed + total < 2 * total * (score + 1)

\* a record without gender under the standard configuration: two of its three
\* applicable rules passed
C15_Witness ==
    /\ silver.op = "build_silver_table"
    /\ silver.add_score
    /\ silver.config = create_standard_customer_config
    /\ RuleGender \notin ToSet(silver.df.columns)
    /\ {RuleNric, RuleEmail, RuleCountry} \subseteq ToSet(silver.df.columns)
    /\ silver.result.row[Col.quality_score] = 6667

\* C16: in a record customers_silver produced, each of nric, email, gender and
\* country whose incoming value its validator rejected still holds the incoming
\* value, and data_quality_flags contains the rule's name.
C16_InvalidKeptAndFlagged ==
    (silver.op = "customers_silver") =>
        \A rule \in {RuleNric, RuleEmail, RuleGender, RuleCountry} :
            (Validate(rule, silver.df.row[rule]) = SqlFalse) =>
                LET flags == silver.result.row[Col.data_quality_flags]
                IN  /\ silver.result.row[rule] = silver.df.row[rule]
                    /\ flags # NULL
                    /\ \E i \in 1..Len(flags) :
                           /\ i + Len(rule) - 1 <= Len(flags)
                           /\ SubSeq(flags, i, i + Len(rule) - 1) = rule

\* C17, as stated: build_silver_table creates no column its configuration names
\* and the input lacks, flags no rule on such a column, and returns what it
\* returns under the configuration without the entries on such columns (no such
\* rule counts in the denominator of the score).
C17_AbsentFromInputSkipped ==
    LET cols == ToSet(silver.df.columns) IN
    (silver.op = "build_silver_table") =>
        LET config == silver.config
            named  == {config.transformations[i].col : i \in 1..Len(config.transformations)}
                      \cup {config.validations[i].col : i \in 1..Len(config.validations)}
                      \cup ToSet(config.uppercase_columns) \cup ToSet(config.null_fill_columns)
            In(c)  == c \in cols
            InCol(e) == e.col \in cols
            without == SilverTableConfig(config.source_prefix,
                                         SelectSeq(config.transformations, InCol),
                                         SelectSeq(config.validations, InCol),
                                         SelectSeq(config.null_fill_columns, In),
                                         SelectSeq(config.uppercase_columns, In))
            flags  == silver.result.row[Col.data_quality_flags]
            fresh  == /\ Col.data_quality_flags \in ToSet(silver.result.columns)
                      /\ silver.add_flags
                      /\ \E i \in 1..Len(without.validations) : TRUE
            Item(n) == LET padded == <<",", " ">> \o flags \o <<",", " ">>
                           needle == <<",", " ">> \o n \o <<",", " ">>
                       IN  \E i \in 1..Len(padded) :
                              /\ i + Len(needle) - 1 <= Len(padded)
                              /\ SubSeq(padded, i, i + Len(needle) - 1) = needle
        IN  /\ \A n \in named \ cols : n \notin ToSet(silver.result.columns)
            /\ fresh /\ flags # NULL => \A n \in named \ cols : ~Item(n)
            /\ silver.result = build_silver_table(silver.df, without,
                                                  silver.add_flags, silver.add_score)

\* C17, amended: the same for the columns the record lacks after the prefix step
\* (the columns the input lacks when no prefix is configured).
C17_AbsentAfterPrefixSkipped ==
    LET prefix == silver.config.source_prefix
        cols   == {IF prefix = None \/ StartsWith(c, prefix) THEN c ELSE prefix \o c :
                      c \in ToSet(silver.df.columns)} IN
    (silver.op = "build_silver_table") =>
        LET config == silver.config
            named  == {config.transformations[i].col : i \in 1..Len(config.transformations)}
                      \cup {config.validations[i].col : i \in 1..Len(config.validations)}
                      \cup ToSet(config.uppercase_columns) \cup ToSet(config.null_fill_columns)
            In(c)  == c \in cols
            InCol(e) == e.col \in cols
            without == SilverTableConfig(config.source_prefix,
                                         SelectSeq(config.transformations, InCol),
                                         SelectSeq(config.validations, InCol),
                                         SelectSeq(config.null_fill_columns, In),
                                         SelectSeq(config.uppercase_columns, In))
            flags  == silver.result.row[Col.data_quality_flags]
            fresh  == /\ Col.data_quality_flags \in ToSet(silver.result.columns)
                      /\ silver.add_flags
                      /\ \E i \in 1..Len(without.validations) : TRUE
            Item(n) == LET padded == <<",", " ">> \o flags \o <<",", " ">>
                           needle == <<",", " ">> \o n \o <<",", " ">>
                       IN  \E i \in 1..Len(padded) :
                              /\ i + Len(needle) - 1 <= Len(padded)
                              /\ SubSeq(padded, i, i + Len(needle) - 1) = needle
        IN  /\ \A n \in named \ cols : n \notin ToSet(silver.result.columns)
            /\ fresh /\ flags # NULL => \A n \in named \ cols : ~Item(n)
            /\ silver.result = build_silver_table(silver.df, without,
                                                  silver.add_flags, silver.add_score)

\* a record without gender and phone under the standard configuration, flagged
\* for its nric and scored over three rules
C17_Witness ==
    /\ silver.op = "build_silver_table"
    /\ silver.config = create_standard_customer_config
    /\ silver.add_flags /\ silver.add_score
    /\ RuleGender \notin ToSet(silver.df.columns)
    /\ Col.phone \notin ToSet(silver.df.columns)
    /\ RuleGender \notin ToSet(silver.result.columns)
    /\ {Col.data_quality_flags, Col.quality_score} \subseteq ToSet(silver.result.columns)
    /\ silver.result.row[Col.data_quality_flags] = RuleNric
    /\ silver.result.row[Col.quality_score] = 6667

\* C18, as stated: with no source prefix, build_silver_table leaves every column
\* its configuration does not name as a transformation, uppercase or null-fill
\* column at its value, keeps the input columns in their order, and adds at most
\* data_quality_flags and quality_score.
C18_UnnamedColumnsUnchanged ==
    (silver.op = "build_silver_table" /\ silver.config.source_prefix = None) =>
        LET config == silver.config
            named  == {config.transformations[i].col : i \in 1..Len(config.transformations)}
                      \cup ToSet(config.uppercase_columns) \cup ToSet(config.null_fill_columns)
            quality == {Col.data_quality_flags, Col.quality_score}
            before == ToSet(silver.df.columns)
        IN  /\ \A c \in before \ named :
                   /\ c \in ToSet(silver.result.columns)
                   /\ silver.result.row[c] = silver.df.row[c]
            /\ SelectSeq(silver.result.columns, LAMBDA c : c \in before) = silver.df.columns
            /\ ToSet(silver.result.columns) \ before \subseteq quality

\* C18, amended: the same, the columns data_quality_flags and quality_score of
\* the input excepted, which the builder overwrites in place.
C18_UnnamedColumnsButQualityUnchanged ==
    (silver.op = "build_silver_table" /\ silver.config.source_prefix = None) =>
        LET config == silver.config
            named  == {config.transformations[i].col : i \in 1..Len(config.transformations)}
                      \cup ToSet(config.uppercase_columns) \cup ToSet(config.null_fill_columns)
            quality == {Col.data_quality_flags, Col.quality_score}
            before == ToSet(silver.df.columns)
        IN  /\ \A c \in before \ (named \cup quality) :
                   /\ c \in ToSet(silver.result.columns)
                   /\ silver.result.row[c] = silver.df.row[c]
            /\ SelectSeq(silver.result.columns, LAMBDA c : c \in before) = silver.df.columns
            /\ ToSet(silver.result.columns) \ before \subseteq quality

\* a record under the standard configuration: its nric is rewritten, its
\* customer_id and email are not, and the two quality columns are appended
C18_Witness ==
    /\ silver.op = "build_silver_table"
    /\ silver.config = create_standard_customer_config
    /\ {RuleNric, RuleEmail} \subseteq ToSet(silver.df.columns)
    /\ silver.df.row[RuleEmail] # NULL
    /\ silver.result.row[RuleNric] # silver.df.row[RuleNric]
    /\ silver.result.row[RuleEmail] = silver.df.row[RuleEmail]
    /\ silver.result.row[Col.customer_id] = silver.df.row[Col.customer_id]
    /\ silver.result.columns =
           silver.df.columns \o <<Col.data_quality_flags, Col.quality_score>>

-----------------------------------------------------------------------------
(* Properties of normalize_column_name (specification SpecColumns) *)

\* C19: normalizing a name that holds no run of three or more spaces a second
\* time returns what the first call returned.
C19_IdempotentButTripleSpaces ==
    (Len(column_name) >= 3) =>
        LET s == column_name[1]
        IN  (~ \E i \in 1..(Len(s) - 2) : s[i] = " " /\ s[i + 1] = " " /\ s[i + 2] = " ") =>
                column_name[3] = column_name[2]

\* C20: a name normalize_column_name returned has no whitespace at either end,
\* no uppercase letter, no space and no two consecutive underscores; the two
\* names of the test table come out as customer_id and email_address.
C20_NormalizedShape ==
    (Len(column_name) >= 2) =>
        LET s == column_name[1]
            r == column_name[2]
        IN  /\ r # <<>> => r[1] \notin WhiteSpace /\ r[Len(r)] \notin WhiteSpace
            /\ \A i \in 1..Len(r) : r[i] \notin UpperLetter /\ r[i] # " "
            /\ \A i \in 1..(Len(r) - 1) : ~(r[i] = "_" /\ r[i + 1] = "_")
            /\ s = <<" ", " ", "C", "u", "s", "t", "o", "m", "e", "r", " ", "I", "D", " ", " ">>
                  => r = <<"c", "u", "s", "t", "o", "m", "e", "r", "_", "i", "d">>
            /\ s = <<"E", "m", "a", "i", "l", " ", " ", "A", "d", "d", "r", "e", "s", "s">>
                  => r = <<"e", "m", "a", "i", "l", "_", "a", "d", "d", "r", "e", "s", "s">>

-----------------------------------------------------------------------------
(* Properties of the SCD Type 2 flow (specification SpecSCD) *)

\* the step that applies a change record
ChangeApplied == scd_count' = scd_count + 1

\* the rows of the versions of key K, and of its open ones
RowsOf(table, K) == {i \in 1..Len(table) : table[i].rec.customer_id = K}
OpenRowsOf(table, K) == {i \in RowsOf(table, K) : table[i].__END_AT = NullTs}

\* C4: every key has at most one version with an open end, and the 'current'
\* query returns at most one row per key.
C4_AtMostOneCurrentVersion ==
    \A K \in CustomerIds :
        /\ Cardinality(OpenRowsOf(scd_table, K)) <= 1
        /\ Cardinality(RowsOf(query_scd_type2_current(scd_table), K)) <= 1

\* a key with a closed and an open version, next to another key's version: the
\* 'current' query returns one row for each
C4_Witness ==
    \E K, L \in CustomerIds :
        /\ K # L
        /\ Cardinality(RowsOf(scd_table, K)) = 2
        /\ Cardinality(OpenRowsOf(scd_table, K)) = 1
        /\ Cardinality(RowsOf(query_scd_type2_current(scd_table), K)) = 1
        /\ Cardinality(RowsOf(query_scd_type2_current(scd_table), L)) = 1

\* C5, as stated: a key's versions ordered by start are contiguous, the end of
\* version n being the start of version n+1, also after a delete and a re-insert.
C5_Contiguous ==
    \A K \in CustomerIds :
        LET h == query_scd_type2_history(scd_table, K)
        IN  \A n \in 1..(Len(h) - 1) : h[n].__END_AT = h[n + 1].__START_AT

\* C5, amended: a key's versions ordered by start do not overlap (each closed
\* version ends no earlier than it starts and no later than the next one starts,
\* and only the last may be open), and the end of version n is the start of
\* version n+1 unless version n was closed by a logical delete.
C5_NonOverlappingContiguousButDeletes ==
    \A K \in CustomerIds :
        LET h == query_scd_type2_history(scd_table, K)
        IN  \A n \in 1..(Len(h) - 1) :
                /\ h[n].__END_AT # NullTs
                /\ h[n].__START_AT <= h[n].__END_AT
                /\ h[n].__END_AT <= h[n + 1].__START_AT
                /\ \/ h[n].__END_AT = h[n + 1].__START_AT
                   \/ h[n].__END_AT \in scd_deletes[K]

\* a key deleted and re-inserted later, with a gap between the two versions
C5_Witness ==
    \E K \in CustomerIds :
        LET h == query_scd_type2_history(scd_table, K)
        IN  /\ Len(h) = 2
            /\ h[1].__END_AT \in scd_deletes[K]
            /\ h[1].__END_AT < h[2].__START_AT
            /\ h[2].__END_AT = NullTs

\* the effect C6 describes, of the change incoming on the current version of its
\* key: that version closed at the change's sequence value, one version opened
\* at it, every other row as it was
OpensVersion(incoming) ==
    LET K == incoming.customer_id
        S == incoming[scd_config.sequence_by]
        n == Len(scd_table)
    IN  /\ Len(scd_table') = n + 1
        /\ \A i \in 1..n :
              scd_table'[i] = IF i \in OpenRowsOf(scd_table, K)
                              THEN [scd_table[i] EXCEPT !.__END_AT = S]
                              ELSE scd_table[i]
        /\ scd_table'[n + 1].rec.customer_id = K
        /\ scd_table'[n + 1].__START_AT = S
        /\ scd_table'[n + 1].__END_AT = NullTs

\* C6, as stated: a change for key K whose current version differs from it in at
\* least one tracked column closes that version at S and opens exactly one new
\* version at S; every other version is unchanged.
C6_TrackedDifferenceOpensVersion ==
    [][\A i \in OpenRowsOf(scd_table, scd_change'.customer_id) :
          (/\ ChangeApplied
           /\ \E c \in ScdColumns \ ToSet(metadata_columns) :
                 scd_change'[c] # scd_table[i].rec[c])
              => OpensVersion(scd_change')]_vars

\* C6, amended: so does a change that is no delete and differs from the current
\* version in a tracked column by a value that counts as a change (a non-null
\* one, under ignore_null_updates).
C6_TrackedChangeOpensVersion ==
    [][\A i \in OpenRowsOf(scd_table, scd_change'.customer_id) :
          (/\ ChangeApplied
           /\ ~(/\ scd_config.apply_as_deletes # None
                /\ scd_change'[scd_config.apply_as_deletes[1]] = SqlTrue)
           /\ \E c \in ScdColumns \ ToSet(metadata_columns) :
                 /\ scd_change'[c] # scd_table[i].rec[c]
                 /\ ~(scd_config.ignore_null_updates /\ IsNullIn(c, scd_change'[c])))
              => OpensVersion(scd_change')]_vars

\* a key whose version without email was closed by the change that gave it one,
\* next to a version of the other key
C6_Witness ==
    \E K \in CustomerIds :
        LET h == query_scd_type2_history(scd_table, K)
        IN  /\ Len(h) = 2
            /\ scd_change.customer_id = K
            /\ scd_change.email = <<"a">>
            /\ h[1].rec.email = NULL
            /\ h[1].__END_AT = scd_change.silver_processed_ts
            /\ h[2].__START_AT = scd_change.silver_processed_ts
            /\ h[2].rec.email = <<"a">>
            /\ h[2].__END_AT = NullTs
            /\ Len(scd_table) = 3

\* C7: a change that differs from its key's current version only in the columns
\* ingested_file, ingestion_ts, silver_processed_ts, data_quality_flags,
\* quality_score and is_valid_postal_code opens no version and leaves every
\* version's start and end as they were.
C7_MetadataOnlyChangeOpensNoVersion ==
    [][\A i \in OpenRowsOf(scd_table, scd_change'.customer_id) :
          (/\ ChangeApplied
           /\ \A c \in ScdColumns \ {"ingested_file", "ingestion_ts", "silver_processed_ts",
                                     "data_quality_flags", "quality_score",
                                     "is_valid_postal_code"} :
                 scd_change'[c] = scd_table[i].rec[c])
              => scd_table' = scd_table]_vars

\* the last change differs from its key's current version in every metadata
\* column and in no other, and that version still starts before the change
C7_Witness ==
    \E i \in OpenRowsOf(scd_table, scd_change.customer_id) :
        /\ scd_change.email = scd_table[i].rec.email
        /\ scd_change.is_deleted = scd_table[i].rec.is_deleted
        /\ \A c \in ToSet(metadata_columns) : scd_change[c] # scd_table[i].rec[c]
        /\ scd_table[i].__START_AT < scd_change.silver_processed_ts

\* C8: a change that satisfies the delete predicate closes its key's current
\* version at the change's sequence value and creates no version; from then on
\* the 'current' query has no row for the key until a change for it that is no
\* delete is applied; and no step removes a version from the history.
C8_DeleteClosesWithoutReplacement ==
    [][ChangeApplied =>
          LET K      == scd_change'.customer_id
              S      == scd_change'[scd_config.sequence_by]
              delete == /\ scd_config.apply_as_deletes # None
                        /\ scd_change'[scd_config.apply_as_deletes[1]] = SqlTrue
          IN  /\ delete =>
                    /\ Len(scd_table') = Len(scd_table)
                    /\ \A i \in 1..Len(scd_table) :
                          scd_table'[i] = IF i \in OpenRowsOf(scd_table, K)
                                          THEN [scd_table[i] EXCEPT !.__END_AT = S]
                                          ELSE scd_table[i]
                    /\ RowsOf(query_scd_type2_current(scd_table'), K) = {}
              /\ \A L \in CustomerIds :
                    (/\ RowsOf(query_scd_type2_current(scd_table), L) = {}
                     /\ (L # K \/ delete))
                        => RowsOf(query_scd_type2_current(scd_table'), L) = {}
              /\ \A L \in CustomerIds :
                    LET before == query_scd_type2_history(scd_table, L)
                        after  == query_scd_type2_history(scd_table', L)
                    IN  \A n \in 1..Len(before) :
                            \E m \in 1..Len(after) :
                                /\ after[m].rec = before[n].rec
                                /\ after[m].__START_AT = before[n].__START_AT]_vars

\* the last change is a delete that closed its key's only version, which the
\* history query still returns and the 'current' query no longer does
C8_Witness ==
    LET K == scd_change.customer_id
        h == query_scd_type2_history(scd_table, K)
    IN  /\ scd_config.apply_as_deletes = <<"is_deleted">>
        /\ scd_change.is_deleted = SqlTrue
        /\ Len(h) = 1
        /\ h[1].__START_AT < scd_change.silver_processed_ts
        /\ h[1].__END_AT = scd_change.silver_processed_ts
        /\ RowsOf(query_scd_type2_current(scd_table), K) = {}

\* C9: the configuration has ignore_null_updates enabled; a change (no delete)
\* whose tracked columns differ from the current version's only by being null
\* opens no version; and the version a change opens keeps the current version's
\* value in every tracked column that is null in the change.
C9_NullUpdatesIgnored ==
    [][\A i \in OpenRowsOf(scd_table, scd_change'.customer_id) :
          (/\ ChangeApplied
           /\ ~(/\ scd_config.apply_as_deletes # None
                /\ scd_change'[scd_config.apply_as_deletes[1]] = SqlTrue))
              => LET tracked == ScdColumns \ ToSet(metadata_columns)
                     current == scd_table[i].rec
                 IN  /\ scd_config.ignore_null_updates = TRUE
                     /\ (\A c \in tracked :
                            scd_change'[c] # current[c] => IsNullIn(c, scd_change'[c]))
                           => scd_table' = scd_table
                     /\ Len(scd_table') > Len(scd_table) =>
                           \A c \in tracked :
                               IsNullIn(c, scd_change'[c]) =>
                                   scd_table'[Len(scd_table')].rec[c] = current[c]]_vars

\* the last change had no email and a new is_deleted: the version it opened
\* keeps the email of the version it closed
C9_Witness ==
    LET K == scd_change.customer_id
        h == query_scd_type2_history(scd_table, K)
    IN  /\ scd_change.email = NULL
        /\ scd_change.is_deleted = SqlTrue
        /\ Len(h) = 2
        /\ h[1].rec.email = <<"a">>
        /\ h[1].rec.is_deleted = SqlFalse
        /\ h[2].__START_AT = scd_change.silver_processed_ts
        /\ h[2].rec.email = <<"a">>
        /\ h[2].rec.is_deleted = SqlTrue

-----------------------------------------------------------------------------
(* Properties of the standardizers and of normalize_dataframe_columns *)
(* (specification SpecUtils)                                           *)

\* C24, as stated: a value that is 1 to 6 digits between surrounding whitespace
\* comes back as those digits left-padded with '0' to 6 and passes
\* validate_singapore_postal_code; every other value comes back unchanged and
\* does not pass.
C24_PadsDigitsElseUnchanged ==
    (util_call.fn = "standardize_singapore_postal_code" /\ util_call.col # NULL) =>
        LET col    == util_call.col
            result == util_call.result
            inner  == {i \in 1..Len(col) : col[i] \notin WhiteSpace}
            core   == IF inner = {} THEN <<>>
                      ELSE SubSeq(col, CHOOSE i \in inner : \A j \in inner : i <= j,
                                       CHOOSE i \in inner : \A j \in inner : i >= j)
        IN  /\ IF Len(core) \in 1..6 /\ \A i \in 1..Len(core) : core[i] \in Digit
               THEN /\ result = [i \in 1..(6 - Len(core)) |-> "0"] \o core
                    /\ validate_singapore_postal_code(result) = SqlTrue
               ELSE /\ result = col
                    /\ validate_singapore_postal_code(result) = SqlFalse
            /\ col = <<"1", "2", "3">> => result = <<"0", "0", "0", "1", "2", "3">>
            /\ col = <<" ", " ", "1", "2", "3", "4", "5", "6", " ", " ">>
                  => result = <<"1", "2", "3", "4", "5", "6">>
            /\ col = <<"A", "B", "C", "1", "2", "3">> => result = col

\* C24, amended: the same with all whitespace ignored, inside the value too; every
\* other value comes back with its whitespace removed.
C24_PadsDigitsElseCleaned ==
    (util_call.fn = "standardize_singapore_postal_code" /\ util_call.col # NULL) =>
        LET col    == util_call.col
            result == util_call.result
            core   == SelectSeq(col, LAMBDA c : c \notin WhiteSpace)
        IN  /\ IF Len(core) \in 1..6 /\ \A i \in 1..Len(core) : core[i] \in Digit
               THEN /\ result = [i \in 1..(6 - Len(core)) |-> "0"] \o core
                    /\ validate_singapore_postal_code(result) = SqlTrue
               ELSE /\ result = core
                    /\ validate_singapore_postal_code(result) = SqlFalse
            /\ col = <<"1", "2", "3">> => result = <<"0", "0", "0", "1", "2", "3">>
            /\ col = <<" ", " ", "1", "2", "3", "4", "5", "6", " ", " ">>
                  => result = <<"1", "2", "3", "4", "5", "6">>
            /\ col = <<"A", "B", "C", "1", "2", "3">> => result = col

C24_Witness ==
    /\ util_call.fn = "standardize_singapore_postal_code"
    /\ util_call.col = <<"1", "2", "3">>
    /\ util_call.result = <<"0", "0", "0", "1", "2", "3">>

\* C25: standardize_phone_number of a value that is not NULL is the rule list
\* applied to the value's digits and leading '+' (a '+' after the first kept
\* character dropped): kept when it starts with '+65'; '+' prepended when it
\* starts with '65'; a leading '0' replaced by '+65'; '+65' prepended to exactly
\* 8 digits; left as cleaned otherwise. The result has no '+' after its first
\* character.
C25_PhoneRuleList ==
    (util_call.fn = "standardize_phone_number" /\ util_call.col # NULL) =>
        LET kept    == SelectSeq(util_call.col, LAMBDA c : c \in Digit \cup {"+"})
            cleaned == IF kept = <<>> THEN <<>>
                       ELSE <<kept[1]>> \o SelectSeq(Tail(kept), LAMBDA c : c \in Digit)
            Starts(p) == Len(cleaned) >= Len(p) /\ SubSeq(cleaned, 1, Len(p)) = p
            expected == IF Starts(<<"+", "6", "5">>) THEN cleaned
                        ELSE IF Starts(<<"6", "5">>) THEN <<"+">> \o cleaned
                        ELSE IF Starts(<<"0">>) THEN <<"+", "6", "5">> \o Tail(cleaned)
                        ELSE IF Len(cleaned) = 8 /\ \A i \in 1..8 : cleaned[i] \in Digit
                             THEN <<"+", "6", "5">> \o cleaned
                        ELSE cleaned
        IN  /\ util_call.result = expected
            /\ \A i \in 2..Len(util_call.result) : util_call.result[i] # "+"

\* C30: normalize_dataframe_columns renames position by position: the output has
\* as many columns as the input, the name at each position is normalize_column_name
\* of the input name at that position, and the rename performed for one column
\* leaves the name of every other column as it was.
C30_RenamesPositionByPosition ==
    util_call.fn = "normalize_dataframe_columns" =>
        LET columns == util_call.columns
            renamed == util_call.result
            df      == renamed[Len(renamed)]
        IN  /\ Len(df) = Len(columns)
            /\ \A i \in 1..Len(columns) : df[i] = normalize_column_name(columns[i])
            /\ \A k \in 1..Len(columns) :
                  \A i \in 1..Len(columns) : i # k => renamed[k + 1][i] = renamed[k][i]

(***************************************************************************)
(* Properties of interleaved change streams and of the point-in-time query *)
(* (specification SpecSCD)                                                 *)
(***************************************************************************)

\* the versions of key K in table order
VersionsOf(table, K) == SelectSeq(table, LAMBDA v : v.rec.customer_id = K)

\* a change to one key leaves the versions of every other key as they are and
\* changes the versions of its own key as it would change them were they the
\* whole table: the versions of a key are those of its own changes applied alone,
\* whatever changes of other keys come in between
KeysCommute ==
    [][ChangeApplied =>
          LET incoming == scd_change'
          IN  \A K \in CustomerIds :
                  VersionsOf(scd_table', K) =
                      IF K = incoming.customer_id
                      THEN AutoCdcApply(Flow, VersionsOf(scd_table, K), incoming)
                      ELSE VersionsOf(scd_table, K)]_vars

\* C26, as stated: under any interleaving of the keys' change streams, each in
\* sequence order, the table holds for every key the versions of that key's
\* changes applied alone, every key has at most one open version, and the end of
\* each version is the start of the next.
C26_InterleavingContiguous ==
    /\ KeysCommute
    /\ [](\A K \in CustomerIds :
              /\ Cardinality(OpenRowsOf(scd_table, K)) <= 1
              /\ LET h == query_scd_type2_history(scd_table, K)
                 IN  \A n \in 1..(Len(h) - 1) : h[n].__END_AT = h[n + 1].__START_AT)

\* C26, amended: under any interleaving of the keys' change streams, each in
\* sequence order, the table holds for every key the versions of that key's
\* changes applied alone, every key has at most one open version, and a key's
\* versions do not overlap: the end of a version is the start of the next one,
\* or earlier when the version was closed by a logical delete.
C26_InterleavingNonOverlapping ==
    /\ KeysCommute
    /\ [](\A K \in CustomerIds :
              /\ Cardinality(OpenRowsOf(scd_table, K)) <= 1
              /\ LET h == query_scd_type2_history(scd_table, K)
                 IN  \A n \in 1..(Len(h) - 1) :
                         /\ h[n].__END_AT # NullTs
                         /\ h[n].__END_AT <= h[n + 1].__START_AT
                         /\ h[n].__END_AT < h[n + 1].__START_AT => h[n].__END_AT \in scd_deletes[K])

\* two keys whose changes were applied alternately: the two versions of one key
\* lie around the other key's version in the table, the first closed where the
\* second starts
C26_Witness ==
    \E K, L \in CustomerIds :
        /\ K # L
        /\ Len(scd_table) = 3
        /\ scd_table[1].rec.customer_id = K
        /\ scd_table[2].rec.customer_id = L
        /\ scd_table[3].rec.customer_id = K
        /\ scd_table[1].__END_AT = scd_table[3].__START_AT
        /\ scd_table[2].__END_AT = NullTs
        /\ scd_table[3].__END_AT = NullTs

\* C27: at every time T the point-in-time query returns at most one version of
\* each key, and at every T at or after the largest sequence value applied so far
\* it returns the rows of the 'current' query.
C27_AsOfOnePerKeyAndCurrent ==
    LET applied == {scd_seq[K] : K \in CustomerIds}
    IN  \A T \in 0..(MaxSeq + 1) :
            /\ \A K \in CustomerIds :
                   Cardinality(RowsOf(query_scd_type2_as_of(scd_table, T), K)) <= 1
            /\ (\A S \in applied : S <= T)
                   => query_scd_type2_as_of(scd_table, T) = query_scd_type2_current(scd_table)

\* a key with a closed and an open version next to another key's version, queried
\* at the time the second version starts: the query returns the open versions,
\* and at an earlier time the version closed since
C27_Witness ==
    \E K, L \in CustomerIds :
        /\ K # L
        /\ Cardinality(RowsOf(scd_table, K)) = 2
        /\ Cardinality(OpenRowsOf(scd_table, K)) = 1
        /\ Cardinality(OpenRowsOf(scd_table, L)) = 1
        /\ \E T \in 1..MaxSeq :
              /\ \A M \in CustomerIds : scd_seq[M] <= T
              /\ \E i \in 1..Len(scd_table) : scd_table[i].__END_AT = T
              /\ Len(query_scd_type2_as_of(scd_table, T)) = 2
              /\ query_scd_type2_as_of(scd_table, T) = query_scd_type2_current(scd_table)
              /\ query_scd_type2_as_of(scd_table, T - 1) # query_scd_type2_current(scd_table)

(***************************************************************************)
(* Properties of the pipeline from customers_silver to customers_gold and  *)
(* of build_silver_table on its own output (specification SpecSilver)      *)
(***************************************************************************)

\* C28: under the masked_only tier two bronze records that differ only in email,
\* phone, nric and address, run through customers_silver and customers_gold, give
\* gold rows equal in every projected column other than the masking timestamp.
C28_MaskedOnlyIndependentOfPii ==
    silver.op = "customers_silver" =>
        LET ToSilverRow(df) ==
                [SilverRow(df.row[Col.customer_id], df.row[Col.full_name], df.row[RuleEmail],
                           df.row[Col.phone], df.row[RuleNric], df.row[Col.address],
                           df.row[RulePostal], df.row[Col.data_quality_flags],
                           df.row[Col.quality_score])
                    EXCEPT !.country = df.row[RuleCountry], !.gender = df.row[RuleGender]]
            Gold(bronze_df) ==
                GoldRow(ToSilverRow(customers_silver_table(bronze_df)), masked_only, 0, Scientist)
        IN  \A email \in {NULL, <<"a", "@", "b", ".", "c", "o">>, <<"a", "@", "b">>},
               phone \in {NULL, <<"9", "1", "2", "3", " ", "4", "5", "6", "7">>},
               nric \in {NULL, <<" ", "s", "1", "2", "3", "4", "5", "6", "7", "d">>,
                         <<"S", "1", "2", "3">>},
               address \in {NULL, <<"1", " ", "A", " ", "1", "2", "3", "4", "5", "6">>} :
               LET other == [silver.df EXCEPT !.row[RuleEmail] = email,
                                              !.row[Col.phone] = phone,
                                              !.row[RuleNric] = nric,
                                              !.row[Col.address] = address]
               IN  Gold(other) = Gold(silver.df)

\* C29: build_silver_table with the standard customer configuration, applied to
\* a record it has produced, yields the same column values, data_quality_flags
\* and quality_score.
C29_IdempotentOnOwnOutput ==
    (/\ silver.op = "build_silver_table"
     /\ silver.config = create_standard_customer_config
     /\ silver.add_flags /\ silver.add_score)
        => build_silver_table(silver.result, create_standard_customer_config, TRUE, TRUE)
               = silver.result

=============================================================================
